---- MODULE Spec2Model ----
(***************************************************************************)
(* Character generation, caching and persistence pipeline of the TTRPG     *)
(* character generator: the Gemini generation service with its response    *)
(* cache, the Pollinations generation service, the Dexie DatabaseService,  *)
(* and the HomePage handlers that compose generation with the Prisma       *)
(* store.                                                                  *)
(***************************************************************************)
EXTENDS Integers, Naturals, Sequences, FiniteSets, TLC

(***************************************************************************)
(* Bounds of the model.                                                    *)
(***************************************************************************)
\* Outbound calls to the generation service in one behaviour.
MaxCalls == 2
\* Highest reading of the millisecond clock.
MaxTime == 2
\* Records the Prisma store creates in one behaviour.
MaxRows == 3

(***************************************************************************)
(* Types (types.ts).                                                       *)
(***************************************************************************)
GameSystem == {"dnd5e", "pf2e", "blades"}

\* JavaScript values: every value is a record with a kind.
Undefined == [kind |-> "undefined"]
Null == [kind |-> "null"]

\* A string array.
StringArray(n) == [kind |-> "array", items |-> n]

\* A character object of the shape of system s (its name and backstory; the
\* other fields of the shape stand behind shape).
CharacterOf(n, s) ==
  [kind |-> "object", name |-> n, shape |-> s,
   backstory |-> StringArray("the past of " \o n)]

\* The { character, npcs } object of the combined schemas.
WithNpcs(c, ns) == [kind |-> "object", character |-> c, npcs |-> ns]

\* o.f of JavaScript: a missing property reads as undefined; reading a
\* property of null or undefined throws a TypeError (ok = FALSE).
Prop(o, f) ==
  IF o.kind \in {"null", "undefined"} THEN [ok |-> FALSE, value |-> Undefined]
  ELSE IF f \in DOMAIN o THEN [ok |-> TRUE, value |-> o[f]]
  ELSE [ok |-> TRUE, value |-> Undefined]

\* Mutant: the whole array, whatever n.
SliceAll(a, n) == a

\* a.slice(0, n) for n >= 0.
Slice(a, n) == SubSeq(a, 1, IF n < Len(a) THEN n ELSE Len(a))

(***************************************************************************)
(* The text payloads the generation service can return, and JSON.parse.    *)
(***************************************************************************)
GarbageText == [t |-> "garbage", v |-> Undefined]
JsonText(v) == [t |-> "json", v |-> v]

\* The texts the service can answer a request with. The request names a
\* response schema, so the answer is a value of that schema (two different
\* ones, since the model is free to vary), the JSON text null, or text that
\* is not JSON.
SinglePayloads(s) ==
  { JsonText(CharacterOf("A", s)), JsonText(CharacterOf("B", s)) }

CombinedPayloads(s) ==
  { JsonText(WithNpcs(CharacterOf("A", s),
                      <<CharacterOf("N1", s), CharacterOf("N2", s), CharacterOf("N3", s)>>)),
    JsonText(WithNpcs(CharacterOf("B", s), << >>)) }

SuggestionPayloads == { JsonText(StringArray("ideas")) }

MalformedPayloads == { JsonText(Null), GarbageText }

PayloadsFor(f) ==
  MalformedPayloads \cup
    (CASE f.op = "getCharacterSuggestions" -> SuggestionPayloads
       [] f.includeNpcs -> CombinedPayloads(f.system)
       [] OTHER -> SinglePayloads(f.system))

\* JSON.parse(text): the parsed value, or a SyntaxError (ok = FALSE).
JSONparse(text) ==
  IF text.t = "json" THEN [ok |-> TRUE, value |-> text.v]
  ELSE [ok |-> FALSE, value |-> Undefined]

\* The payload is a character valid for the single-character schema of s.
ValidSingle(v, s) ==
  /\ v.kind = "object"
  /\ DOMAIN v = {"kind", "name", "shape", "backstory"}
  /\ v.shape = s

(***************************************************************************)
(* The response schemas of the generation service (types of the            *)
(* properties; descriptions left out, nested objects by their type).       *)
(***************************************************************************)
StringProperty == [type |-> "STRING"]
IntegerProperty == [type |-> "INTEGER"]
ObjectProperty == [type |-> "OBJECT"]
ArrayProperty(items) == [type |-> "ARRAY", items |-> items]

\* { ...a, ...b }
Spread(a, b) ==
  [f \in DOMAIN a \cup DOMAIN b |-> IF f \in DOMAIN b THEN b[f] ELSE a[f]]

appearanceSchema == ArrayProperty("STRING")

commonCharacterProperties ==
  [name |-> StringProperty,
   appearance |-> appearanceSchema,
   personality |-> ArrayProperty("STRING"),
   backstory |-> ArrayProperty("STRING"),
   equipment |-> ArrayProperty("STRING")]

dndSchema ==
  [type |-> "OBJECT",
   properties |->
     Spread(commonCharacterProperties,
            [race |-> StringProperty, class |-> StringProperty,
             background |-> StringProperty, alignment |-> StringProperty,
             hitPoints |-> IntegerProperty, armorClass |-> IntegerProperty,
             speed |-> StringProperty, stats |-> ObjectProperty,
             skills |-> ArrayProperty("STRING"), proficiencies |-> ObjectProperty,
             attacks |-> ArrayProperty("OBJECT")]),
   required |->
     {"name", "race", "class", "background", "alignment", "hitPoints",
      "armorClass", "speed", "stats", "skills", "proficiencies", "attacks",
      "backstory", "appearance", "personality", "equipment"}]

pf2eSchema ==
  [type |-> "OBJECT",
   properties |->
     Spread(commonCharacterProperties,
            [ancestry |-> StringProperty, heritage |-> StringProperty,
             background |-> StringProperty, class |-> StringProperty,
             alignment |-> StringProperty, hitPoints |-> IntegerProperty,
             armorClass |-> IntegerProperty, speed |-> StringProperty,
             attributes |-> ObjectProperty, skills |-> ArrayProperty("OBJECT"),
             attacks |-> ArrayProperty("OBJECT")]),
   required |->
     {"name", "ancestry", "heritage", "background", "class", "alignment",
      "hitPoints", "armorClass", "speed", "attributes", "skills", "attacks",
      "backstory", "appearance", "personality", "equipment"}]

bladesSchema ==
  [type |-> "OBJECT",
   properties |->
     Spread(commonCharacterProperties,
            [playbook |-> StringProperty, heritage |-> StringProperty,
             background |-> StringProperty, vice |-> StringProperty,
             purveyor |-> StringProperty, aliases |-> ArrayProperty("STRING"),
             drives |-> ArrayProperty("STRING"), attributes |-> ObjectProperty,
             actionRatings |-> ArrayProperty("OBJECT"),
             specialAbilities |-> ArrayProperty("STRING"),
             friends |-> ArrayProperty("STRING"), gear |-> ArrayProperty("OBJECT"),
             harm |-> ObjectProperty]),
   required |->
     {"name", "playbook", "heritage", "background", "vice", "purveyor",
      "appearance", "aliases", "attributes", "actionRatings", "specialAbilities",
      "friends", "gear", "harm", "drives"}]

\* dndWithNpcsSchema, pf2eWithNpcsSchema, bladesWithNpcsSchema
WithNpcsSchema(schema) ==
  [type |-> "OBJECT",
   properties |-> [character |-> schema, npcs |-> ArrayProperty(schema)],
   required |-> {"character", "npcs"}]

systemConfig ==
  [system \in GameSystem |->
     LET schema == CASE system = "dnd5e" -> dndSchema
                     [] system = "pf2e" -> pf2eSchema
                     [] system = "blades" -> bladesSchema
     IN  [schema |-> schema, schemaWithNpcs |-> WithNpcsSchema(schema)]]

\* const schemaToUse = includeNpcs ? config.schemaWithNpcs : config.schema
schemaToUse(system, includeNpcs) ==
  IF includeNpcs THEN systemConfig[system].schemaWithNpcs
  ELSE systemConfig[system].schema

(***************************************************************************)
(* Promise outcomes and error messages.                                    *)
(***************************************************************************)
Resolved(v) == [status |-> "resolved", value |-> v, error |-> ""]
Rejected(e) == [status |-> "rejected", value |-> Undefined, error |-> e]
Pending == [status |-> "pending", value |-> Undefined, error |-> ""]

\* What the transport rejects with on a network or service failure.
ServiceError == "API Error"
InvalidFormatError == "Received an invalid format from the API."
PollinationsError == "Failed to generate character with Pollinations API."
TypeError == "TypeError"

\* The service answered with this text / the outbound call rejected / no
\* answer yet.
NoReply == [t |-> "none", v |-> Undefined]
RejectedReply == [t |-> "rejected", v |-> Undefined]

(***************************************************************************)
(* State.                                                                  *)
(***************************************************************************)
VARIABLES
  responseCache,   \* geminiServiceOptimized: Map<string, any>
  calls,           \* one call frame per caller of the generation services
  apiCalls,        \* outbound calls issued so far
  now,             \* the millisecond clock new Date() reads
  dbCharacters,    \* Dexie table db.characters: id -> record
  dbResult,        \* how the last DatabaseService call settled
  deletedIds,      \* history: the ids of the records deleteCharacter removed
  prismaCharacter, \* Prisma table prisma.character: id -> record
  nextId,          \* next id the Prisma store hands out
  prismaCall,      \* the PrismaService call in progress or last settled
  page,            \* HomePage: state and the running handler
  exportCall,      \* the last exportCharacterAsMdx call and what it produced
  mediaCall,       \* the generateCharacterWithMedia call in progress or settled
  localStorage,    \* window.localStorage: key -> text
  verno,           \* db.verno: the schema version the database is at
  backup           \* what the caller of backupDatabase holds

vars ==
  <<responseCache, calls, apiCalls, now, dbCharacters, dbResult, deletedIds,
    prismaCharacter, nextId, prismaCall, page,
    exportCall, mediaCall, localStorage, verno, backup>>

\* The state of the export formatter, the media example, the schema upgrade
\* and the migration utilities.
UtilityVars == <<exportCall, mediaCall, localStorage, verno, backup>>

Callers == {"c1", "c2", "page"}
Prompts == {"", "a"}
BoolStr(b) == IF b THEN "true" ELSE "false"

IdleFrame ==
  [pc |-> "idle", op |-> "none", system |-> "dnd5e", prompt |-> "",
   includeNpcs |-> FALSE, npcCount |-> 0, sent |-> FALSE,
   reply |-> NoReply, result |-> Pending]

(***************************************************************************)
(* geminiServiceOptimized: generateCharacter and its wrappers.             *)
(***************************************************************************)
\* const cacheKey = `${system}:${prompt}:${includeNpcs}`
CacheKey(system, prompt, includeNpcs) ==
  system \o ":" \o prompt \o ":" \o BoolStr(includeNpcs)

\* const cacheKey = `suggestions:${system}`
SuggestionsKey(system) == "suggestions:" \o system

\* The cache keys generateCharacter can write.
CharacterKeys ==
  { CacheKey(s, p, b) : s \in GameSystem, p \in Prompts, b \in BOOLEAN }

\* new Map()
EmptyMap == [k \in {} |-> Undefined]

\* responseCache.set(key, value)
CacheSet(cache, key, value) ==
  [k \in DOMAIN cache \cup {key} |-> IF k = key THEN value ELSE cache[k]]

\* Mutant: delete leaves the entry in place.
CacheDeleteNothing(cache, key) == cache

\* responseCache.delete(key)
CacheDelete(cache, key) == [k \in DOMAIN cache \ {key} |-> cache[k]]

\* The key a frame's generateCharacter call uses.
FrameKey(f) ==
  IF f.op = "getCharacterSuggestions" THEN SuggestionsKey(f.system)
  ELSE CacheKey(f.system, f.prompt, f.includeNpcs)

\* generateCharacter after the await: the outbound call rejected (the
\* rejection propagates), or response.text is parsed; only a parsed value is
\* cached. Gives the new cache and the outcome of the call.
generateCharacterResume(cache, key, reply) ==
  IF reply.t = "rejected"
  THEN [cache |-> cache, outcome |-> Rejected(ServiceError)]
  ELSE IF JSONparse(reply).ok
       THEN [cache |-> CacheSet(cache, key, JSONparse(reply).value),
             outcome |-> Resolved(JSONparse(reply).value)]
       ELSE [cache |-> cache, outcome |-> Rejected(InvalidFormatError)]

\* generateSingleCharacter: return result.character
singleCharacterResult(inner) ==
  IF inner.status # "resolved" THEN inner
  ELSE IF Prop(inner.value, "character").ok
       THEN Resolved(Prop(inner.value, "character").value)
       ELSE Rejected(TypeError)

\* generateCharacterWithNpcs:
\*   { character: result.character,
\*     npcs: result.npcs ? result.npcs.slice(0, npcCount) : [] }
withNpcsResult(inner, npcCount) ==
  IF inner.status # "resolved" THEN inner
  ELSE IF ~Prop(inner.value, "character").ok THEN Rejected(TypeError)
  ELSE Resolved(WithNpcs(Prop(inner.value, "character").value,
                         IF "npcs" \in DOMAIN inner.value
                         THEN Slice(inner.value.npcs, npcCount)
                         ELSE << >>))

\* getCharacterSuggestions after the await: a parse failure is answered with
\* the built-in default suggestions and nothing is cached.
suggestionsResume(cache, key, reply) ==
  IF reply.t = "rejected"
  THEN [cache |-> cache, outcome |-> Rejected(ServiceError)]
  ELSE IF JSONparse(reply).ok
       THEN [cache |-> CacheSet(cache, key, JSONparse(reply).value),
             outcome |-> Resolved(JSONparse(reply).value)]
       ELSE [cache |-> cache, outcome |-> Resolved(StringArray("defaults"))]

\* PollinationsService.generateCharacter after the await: the inner parse
\* error is thrown inside the outer try, whose catch rethrows its own error.
pollinationsResume(reply) ==
  IF reply.t = "rejected" THEN Rejected(PollinationsError)
  ELSE IF JSONparse(reply).ok
       THEN Resolved(JSONparse(reply).value)
       ELSE Rejected(PollinationsError)

\* What the exported function a frame runs returns, given how its inner
\* generateCharacter call came out.
WrapResult(f, inner) ==
  CASE f.op = "generateSingleCharacter" -> singleCharacterResult(inner)
    [] f.op = "generateCharacterWithNpcs" -> withNpcsResult(inner, f.npcCount)
    [] OTHER -> inner

\* The synchronous part of a cached call: a hit returns the cached value
\* without an outbound call; a miss issues the outbound call and awaits it.
StartCached(c, f) ==
  IF FrameKey(f) \in DOMAIN responseCache
  THEN /\ calls' = [calls EXCEPT ![c] =
                      [f EXCEPT !.pc = "done", !.sent = FALSE, !.reply = NoReply,
                                !.result = WrapResult(f, Resolved(responseCache[FrameKey(f)]))]]
       /\ UNCHANGED apiCalls
  ELSE /\ apiCalls < MaxCalls
       /\ calls' = [calls EXCEPT ![c] =
                      [f EXCEPT !.pc = "awaiting", !.sent = TRUE, !.reply = NoReply,
                                !.result = Pending]]
       /\ apiCalls' = apiCalls + 1

NewFrame(op, system, prompt, includeNpcs, npcCount) ==
  [IdleFrame EXCEPT !.op = op, !.system = system, !.prompt = prompt,
                    !.includeNpcs = includeNpcs, !.npcCount = npcCount]

CanCall(c) == calls[c].pc \in {"idle", "done"}

StoreVars ==
  <<now, dbCharacters, dbResult, deletedIds, prismaCharacter, nextId, prismaCall,
    UtilityVars>>

generateCharacter(c, system, prompt, includeNpcs) ==
  /\ CanCall(c)
  /\ StartCached(c, NewFrame("generateCharacter", system, prompt, includeNpcs, 0))
  /\ UNCHANGED <<responseCache, StoreVars, page>>

generateSingleCharacter(c, system, prompt) ==
  /\ CanCall(c)
  /\ StartCached(c, NewFrame("generateSingleCharacter", system, prompt, FALSE, 0))
  /\ UNCHANGED <<responseCache, StoreVars, page>>

generateCharacterWithNpcs(c, system, prompt, npcCount) ==
  /\ CanCall(c)
  /\ StartCached(c, NewFrame("generateCharacterWithNpcs", system, prompt, TRUE, npcCount))
  /\ UNCHANGED <<responseCache, StoreVars, page>>

getCharacterSuggestions(c, system) ==
  /\ CanCall(c)
  /\ StartCached(c, NewFrame("getCharacterSuggestions", system, "", FALSE, 0))
  /\ UNCHANGED <<responseCache, StoreVars, page>>

refreshSuggestions(system) ==
  /\ SuggestionsKey(system) \in DOMAIN responseCache
  /\ responseCache' = CacheDelete(responseCache, SuggestionsKey(system))
  /\ UNCHANGED <<calls, apiCalls, StoreVars, page>>

\* PollinationsService.generateCharacter: no cache, always an outbound call.
PollinationsGenerateCharacter(c, system, prompt) ==
  /\ CanCall(c)
  /\ apiCalls < MaxCalls
  /\ calls' = [calls EXCEPT ![c] =
       [NewFrame("PollinationsService.generateCharacter", system, prompt, FALSE, 0)
          EXCEPT !.pc = "awaiting", !.sent = TRUE]]
  /\ apiCalls' = apiCalls + 1
  /\ UNCHANGED <<responseCache, StoreVars, page>>

\* The continuation of an awaiting frame once the outbound call has settled
\* with reply (a text, or a rejection).
Resume(c, reply) ==
  LET f == calls[c] IN
  /\ f.pc = "awaiting"
  /\ CASE f.op = "PollinationsService.generateCharacter" ->
            /\ calls' = [calls EXCEPT ![c] =
                 [f EXCEPT !.pc = "done", !.reply = reply,
                           !.result = pollinationsResume(reply)]]
            /\ UNCHANGED responseCache
       [] f.op = "getCharacterSuggestions" ->
            LET r == suggestionsResume(responseCache, FrameKey(f), reply) IN
            /\ calls' = [calls EXCEPT ![c] =
                 [f EXCEPT !.pc = "done", !.reply = reply, !.result = r.outcome]]
            /\ responseCache' = r.cache
       [] OTHER ->
            LET r == generateCharacterResume(responseCache, FrameKey(f), reply) IN
            /\ calls' = [calls EXCEPT ![c] =
                 [f EXCEPT !.pc = "done", !.reply = reply,
                           !.result = WrapResult(f, r.outcome)]]
            /\ responseCache' = r.cache

\* The generation service answers the outbound call of c with a text.
ServiceReplies(c, text) ==
  /\ Resume(c, text)
  /\ UNCHANGED <<apiCalls, StoreVars, page>>

\* The outbound call of c fails (network or service error).
ServiceRejects(c) ==
  /\ Resume(c, RejectedReply)
  /\ UNCHANGED <<apiCalls, StoreVars, page>>

(***************************************************************************)
(* The clock, and DatabaseService over the Dexie table db.characters        *)
(* (schema 'id, system, isNpc, createdAt, updatedAt': primary key id).      *)
(***************************************************************************)
\* Time passes: new Date() never reads less than it did before.
Tick ==
  /\ now < MaxTime
  /\ now' = now + 1
  /\ UNCHANGED <<responseCache, calls, apiCalls, dbCharacters, dbResult,
                 deletedIds, prismaCharacter, nextId, prismaCall, page, UtilityVars>>

\* The primary keys in use, in the order IndexedDB compares them.
IdOrder == <<"id1", "id2", "id3", "id4", "id5", "id6">>

\* The ids the callers of the DatabaseService use.
CharacterIds == {IdOrder[i] : i \in 1 .. 3}

\* The records callers ask addCharacter to store (without timestamps).
AddRequests ==
  { [id |-> "id1", system |-> "dnd5e", prompt |-> "p",
     character |-> CharacterOf("A", "dnd5e"), isNpc |-> FALSE],
    [id |-> "id2", system |-> "dnd5e", prompt |-> "p",
     character |-> CharacterOf("A", "dnd5e"), isNpc |-> TRUE],
    [id |-> "id3", system |-> "pf2e", prompt |-> "p",
     character |-> CharacterOf("A", "pf2e"), isNpc |-> TRUE] }

\* The updates callers pass to updateCharacter.
Updates == { [prompt |-> "X"] }

\* How a DatabaseService call settled: the operation, the id it was given,
\* whether it resolved, and the rows it returned.
DbResult(op, id, ok, rows) == [op |-> op, id |-> id, ok |-> ok, rows |-> rows]
NoResult == DbResult("none", "", TRUE, << >>)

\* table.toArray(): the records in primary-key order.
toArray(table) ==
  LET present == SelectSeq(IdOrder, LAMBDA i : i \in DOMAIN table)
  IN  [k \in 1 .. Len(present) |-> table[present[k]]]

\* Array.prototype.reverse / Collection.reverse()
Reverse(rows) == [k \in 1 .. Len(rows) |-> rows[Len(rows) + 1 - k]]

\* Array.prototype.filter
Filter(rows, Test(_)) == SelectSeq(rows, Test)

\* The position at which a stable ascending sort on createdAt places r in the
\* sorted rows: after every row that is not newer.
RECURSIVE InsertAscending(_, _)
InsertAscending(rows, r) ==
  IF rows = << >> THEN <<r>>
  ELSE IF Head(rows).createdAt <= r.createdAt
       THEN <<Head(rows)>> \o InsertAscending(Tail(rows), r)
       ELSE <<r>> \o rows

\* A stable sort of rows on createdAt, ascending (Dexie's sortBy, and the
\* order of the createdAt index over rows given in primary-key order).
RECURSIVE SortAscending(_)
SortAscending(rows) ==
  IF rows = << >> THEN << >>
  ELSE InsertAscending(SortAscending(SubSeq(rows, 1, Len(rows) - 1)), rows[Len(rows)])

\* rows.sort((a, b) => b.createdAt.getTime() - a.createdAt.getTime()):
\* stable, descending.
RECURSIVE InsertDescending(_, _)
InsertDescending(rows, r) ==
  IF rows = << >> THEN <<r>>
  ELSE IF Head(rows).createdAt >= r.createdAt
       THEN <<Head(rows)>> \o InsertDescending(Tail(rows), r)
       ELSE <<r>> \o rows

RECURSIVE SortDescending(_)
SortDescending(rows) ==
  IF rows = << >> THEN << >>
  ELSE InsertDescending(SortDescending(SubSeq(rows, 1, Len(rows) - 1)), rows[Len(rows)])

\* Mutant: the createdAt index is walked upwards (no reverse()).
getAllCharactersRowsAscending(table) == SortAscending(toArray(table))

\* db.characters.orderBy('createdAt').reverse().toArray()
getAllCharactersRows(table) == Reverse(SortAscending(toArray(table)))

\* db.characters.where('system').equals(system).sortBy('createdAt')
getCharactersBySystemRows(table, system) ==
  SortAscending(Filter(toArray(table), LAMBDA r : r.system = system))

\* allCharacters.filter(char => char.isNpc === isNpc).sort(descending)
getCharactersByNpcStatusRows(table, isNpc) ==
  SortDescending(Filter(toArray(table), LAMBDA r : r.isNpc = isNpc))

\* db.characters.where('createdAt').between(start, end, true, true).toArray():
\* the createdAt index, walked upwards between the two bounds.
getCharactersByDateRangeRows(table, startDate, endDate) ==
  Filter(SortAscending(toArray(table)),
         LAMBDA r : startDate <= r.createdAt /\ r.createdAt <= endDate)

\* The characters of the strings records and search terms are made of.
Chars(s) ==
  CASE s = "p" -> <<"p">>
    [] s = "P" -> <<"P">>
    [] s = "X" -> <<"X">>
    [] s = "A" -> <<"A">>
    [] s = "z" -> <<"z">>
    [] s = "past" -> <<"p", "a", "s", "t">>
    [] s = "the past of A" ->
         <<"t", "h", "e", " ", "p", "a", "s", "t", " ", "o", "f", " ", "A">>
    [] s = "{\"name\":\"" -> <<"{", "\"", "n", "a", "m", "e", "\"", ":", "\"">>
    [] s = "\",\"backstory\":[\"" ->
         <<"\"", ",", "\"", "b", "a", "c", "k", "s", "t", "o", "r", "y", "\"",
           ":", "[", "\"">>
    [] s = "\"]}" -> <<"\"", "]", "}">>
    [] s = "---" -> <<"-", "-", "-">>
    [] s = "# " -> <<"#", " ">>
    [] s = ".mdx" -> <<".", "m", "d", "x">>
    [] s = "title" -> <<"t", "i", "t", "l", "e">>
    [] s = "system" -> <<"s", "y", "s", "t", "e", "m">>
    [] s = "race" -> <<"r", "a", "c", "e">>
    [] s = "class" -> <<"c", "l", "a", "s", "s">>
    [] s = "background" -> <<"b", "a", "c", "k", "g", "r", "o", "u", "n", "d">>
    [] s = "alignment" -> <<"a", "l", "i", "g", "n", "m", "e", "n", "t">>
    [] s = "ancestry" -> <<"a", "n", "c", "e", "s", "t", "r", "y">>
    [] s = "heritage" -> <<"h", "e", "r", "i", "t", "a", "g", "e">>
    [] s = "playbook" -> <<"p", "l", "a", "y", "b", "o", "o", "k">>
    [] s = "vice" -> <<"v", "i", "c", "e">>
    [] s = "D&D 5e" -> <<"D", "&", "D", " ", "5", "e">>
    [] s = "Pathfinder 2e" ->
         <<"P", "a", "t", "h", "f", "i", "n", "d", "e", "r", " ", "2", "e">>
    [] s = "Blades in the Dark" ->
         <<"B", "l", "a", "d", "e", "s", " ", "i", "n", " ", "t", "h", "e", " ",
           "D", "a", "r", "k">>

\* String.prototype.toLowerCase, over the letters in use.
toLowerCase(text) ==
  [i \in 1 .. Len(text) |->
     CASE text[i] = "A" -> "a"
       [] text[i] = "P" -> "p"
       [] text[i] = "X" -> "x"
       [] OTHER -> text[i]]

\* String.prototype.includes
includes(text, term) ==
  \E i \in 0 .. Len(text) - Len(term) :
    \A j \in 1 .. Len(term) : text[i + j] = term[j]

\* JSON.stringify(character), for the fields of the character the model
\* keeps: {"name":"...","backstory":["..."]}
JSONstringify(character) ==
  Chars("{\"name\":\"") \o Chars(character.name) \o Chars("\",\"backstory\":[\"")
    \o Chars(character.backstory.items) \o Chars("\"]}")

\* The terms callers search for.
SearchTerms == {"P", "A", "past", "z"}

\* The strings stored in records or searched for, and the characters
\* stored in records.
Texts == {"p", "P", "X", "A", "z", "past"}
StoredCharacters == { r.character : r \in AddRequests }

\* text.toLowerCase() of each of those strings, and
\* JSON.stringify(character).toLowerCase() of each of those characters
\* (computed once).
LowerCased == [s \in Texts |-> toLowerCase(Chars(s))]
LowerCasedJson == [c \in StoredCharacters |-> toLowerCase(JSONstringify(c))]

\* Mutant: the filter compares without folding the letter case.
searchMatchesCaseSensitive(char, searchTerm) ==
  \/ includes(Chars(char.character.name), Chars(searchTerm))
  \/ includes(Chars(char.prompt), Chars(searchTerm))
  \/ includes(JSONstringify(char.character), Chars(searchTerm))

\* The filter of searchCharacters: the name, the prompt or the serialized
\* character contains the term, letter case ignored.
searchMatches(char, searchTerm) ==
  LET term == LowerCased[searchTerm]
  IN  \/ includes(LowerCased[char.character.name], term)
      \/ includes(LowerCased[char.prompt], term)
      \/ includes(LowerCasedJson[char.character], term)

\* db.characters.filter(...).toArray(): the matches in primary-key order.
searchCharactersRows(table, searchTerm) ==
  Filter(toArray(table), LAMBDA char : searchMatches(char, searchTerm))

\* db.characters.get(id): the record stored under the key, or undefined.
\* The rows of the result hold that record, and nothing for undefined.
getCharacterByIdRows(table, id) ==
  IF id \in DOMAIN table THEN <<table[id]>> ELSE << >>

\* Mutant: the new record is stamped with the time of the add as createdAt
\* only.
newCharacterCreatedOnly(character, t) ==
  [id |-> character.id, system |-> character.system, prompt |-> character.prompt,
   character |-> character.character, isNpc |-> character.isNpc,
   createdAt |-> t, updatedAt |-> 0]

\* { ...character, createdAt: now, updatedAt: now }
newCharacter(character, t) ==
  [id |-> character.id, system |-> character.system, prompt |-> character.prompt,
   character |-> character.character, isNpc |-> character.isNpc,
   createdAt |-> t, updatedAt |-> t]

\* The record after db.characters.update(id, { ...updates, updatedAt: t }).
updatedCharacter(record, updates, t) ==
  [f \in DOMAIN record |->
     IF f = "updatedAt" THEN t
     ELSE IF f \in DOMAIN updates THEN updates[f]
     ELSE record[f]]

OtherVars ==
  <<responseCache, calls, apiCalls, now, prismaCharacter, nextId, prismaCall, page,
    UtilityVars>>

getAllCharacters ==
  /\ dbResult' = DbResult("getAllCharacters", "", TRUE, getAllCharactersRows(dbCharacters))
  /\ UNCHANGED <<dbCharacters, deletedIds, OtherVars>>

getCharacterById(id) ==
  /\ dbResult' = DbResult("getCharacterById", id, TRUE,
                          getCharacterByIdRows(dbCharacters, id))
  /\ UNCHANGED <<dbCharacters, deletedIds, OtherVars>>

searchCharacters(searchTerm) ==
  /\ dbResult' = DbResult("searchCharacters", searchTerm, TRUE,
                          searchCharactersRows(dbCharacters, searchTerm))
  /\ UNCHANGED <<dbCharacters, deletedIds, OtherVars>>

getCharactersBySystem(system) ==
  /\ dbResult' = DbResult("getCharactersBySystem", "", TRUE,
                          getCharactersBySystemRows(dbCharacters, system))
  /\ UNCHANGED <<dbCharacters, deletedIds, OtherVars>>

getCharactersByNpcStatus(isNpc) ==
  /\ dbResult' = DbResult("getCharactersByNpcStatus", "", TRUE,
                          getCharactersByNpcStatusRows(dbCharacters, isNpc))
  /\ UNCHANGED <<dbCharacters, deletedIds, OtherVars>>

getCharactersByDateRange(startDate, endDate) ==
  /\ dbResult' = DbResult("getCharactersByDateRange", "", TRUE,
                          getCharactersByDateRangeRows(dbCharacters, startDate, endDate))
  /\ UNCHANGED <<dbCharacters, deletedIds, OtherVars>>

\* db.characters.add rejects with a ConstraintError when the key exists.
addCharacter(character) ==
  /\ IF character.id \in DOMAIN dbCharacters
     THEN /\ dbResult' = DbResult("addCharacter", character.id, FALSE, << >>)
          /\ UNCHANGED dbCharacters
     ELSE /\ dbCharacters' = CacheSet(dbCharacters, character.id, newCharacter(character, now))
          /\ dbResult' = DbResult("addCharacter", character.id, TRUE, << >>)
  /\ UNCHANGED <<deletedIds, OtherVars>>

\* db.characters.update resolves (with 0) when no record has the key.
updateCharacter(id, updates) ==
  /\ IF id \in DOMAIN dbCharacters
     THEN dbCharacters' = [dbCharacters EXCEPT
                             ![id] = updatedCharacter(dbCharacters[id], updates, now)]
     ELSE UNCHANGED dbCharacters
  /\ dbResult' = DbResult("updateCharacter", id, TRUE, << >>)
  /\ UNCHANGED <<deletedIds, OtherVars>>

\* db.characters.delete resolves whether or not the key exists.
deleteCharacter(id) ==
  /\ dbCharacters' = CacheDelete(dbCharacters, id)
  /\ dbResult' = DbResult("deleteCharacter", id, TRUE, << >>)
  /\ UNCHANGED OtherVars

\* The arrays of stored records callers pass to bulkUpsert: records written
\* at time 0, the first alone or the first two together.
StoredRequests == { newCharacter(character, 0) : character \in AddRequests }
BulkRequests ==
  { <<r1>> : r1 \in { r \in StoredRequests : r.id = "id1" } }
    \cup { <<r1, r2>> : r1 \in { r \in StoredRequests : r.id = "id1" },
                        r2 \in { r \in StoredRequests : r.id = "id2" } }

\* table.bulkPut(rows): each row replaces or creates the record of its key,
\* in array order.
RECURSIVE bulkPut(_, _)
bulkPut(table, rows) ==
  IF rows = << >> THEN table
  ELSE bulkPut(CacheSet(table, Head(rows).id, Head(rows)), Tail(rows))

\* characters.map(char => ({ ...char, updatedAt: now })) and bulkPut.
bulkUpsert(characters) ==
  /\ dbCharacters' = bulkPut(dbCharacters,
                             [k \in 1 .. Len(characters) |->
                                [characters[k] EXCEPT !.updatedAt = now]])
  /\ dbResult' = DbResult("bulkUpsert", "", TRUE, << >>)
  /\ UNCHANGED OtherVars

\* History of the store's lifetime: deletedIds gains the id of every record
\* a deleteCharacter(id) call removes.
RecordsDeletion(id) ==
  deletedIds' = IF id \in DOMAIN dbCharacters THEN deletedIds \cup {id}
                                               ELSE deletedIds

(***************************************************************************)
(* PrismaDatabaseService over the table prisma.character.                  *)
(***************************************************************************)
\* The record prisma.character.create({ data }) persists and returns: a
\* fresh id and createdAt = updatedAt = the time of the call.
PrismaRow(id, data, t) ==
  [id |-> id, system |-> data.system, prompt |-> data.prompt,
   character |-> data.character, isNpc |-> data.isNpc,
   createdAt |-> t, updatedAt |-> t]

\* The argument of PrismaDatabaseService.addCharacter.
CharacterData(system, prompt, character, isNpc) ==
  [system |-> system, prompt |-> prompt, character |-> character, isNpc |-> isNpc]

\* PrismaDatabaseService.addCharacter called once for each of datas, in
\* order; oks[i] says whether the i-th create succeeds (the database call
\* can fail). Gives the table, the next id, the records returned, and
\* whether every call succeeded.
RECURSIVE addCharacters(_, _, _, _, _)
addCharacters(table, next, datas, oks, t) ==
  IF datas = << >>
  THEN [table |-> table, next |-> next, rows |-> << >>, ok |-> TRUE]
  ELSE IF Head(oks)
       THEN LET row == PrismaRow(next, Head(datas), t)
                r == addCharacters(CacheSet(table, next, row), next + 1,
                                   Tail(datas), Tail(oks), t)
            IN  [r EXCEPT !.rows = <<row>> \o r.rows]
       ELSE [addCharacters(table, next, Tail(datas), Tail(oks), t) EXCEPT !.ok = FALSE]

\* The ways n database calls can come out.
Outcomes(n) == [1 .. n -> BOOLEAN]

(***************************************************************************)
(* PrismaService: each operation makes one call on prisma.character inside *)
(* try { return await ... } catch (error) { console.error(...); throw      *)
(* error; }.                                                               *)
(***************************************************************************)
\* The errors a call on prisma.character can reject with.
DatabaseErrors == {"connection lost", "query failed"}

\* The arguments of the PrismaService operations.
NoArgs == [kind |-> "undefined"]
\* The character of an addCharacter request is { name, [key]: any }: it can
\* have the shape of another system than the one the request names.
PrismaData ==
  { CharacterData("dnd5e", "p", CharacterOf("A", "dnd5e"), FALSE),
    CharacterData("pf2e", "p", CharacterOf("A", "pf2e"), TRUE),
    CharacterData("pf2e", "p", CharacterOf("A", "dnd5e"), TRUE) }
PrismaDateRanges == { <<0, MaxTime>>, <<1, MaxTime>> }

\* A call frame: the operation and its arguments, where it stands, the
\* number of calls it has made on prisma.character, the error such a call
\* rejected with ("" for none), and how the operation settled.
IdlePrismaCall ==
  [op |-> "none", args |-> NoArgs, pc |-> "idle", underlying |-> 0,
   thrown |-> "", result |-> Pending]

\* The operation enters its try block, makes its call on prisma.character
\* and awaits it.
PrismaServiceCall(op, args) ==
  /\ prismaCall.pc # "awaiting"
  /\ prismaCall' = [op |-> op, args |-> args, pc |-> "awaiting", underlying |-> 1,
                    thrown |-> "", result |-> Pending]
  /\ UNCHANGED <<responseCache, calls, apiCalls, now, dbCharacters, dbResult,
                 deletedIds, prismaCharacter, nextId, page, UtilityVars>>

PrismaService_getAllCharacters == PrismaServiceCall("getAllCharacters", NoArgs)
PrismaService_getCharactersBySystem(system) ==
  PrismaServiceCall("getCharactersBySystem", [system |-> system])
PrismaService_getCharactersByNpcStatus(isNpc) ==
  PrismaServiceCall("getCharactersByNpcStatus", [isNpc |-> isNpc])
PrismaService_getCharacterById(id) ==
  PrismaServiceCall("getCharacterById", [id |-> id])
PrismaService_getFirstPC == PrismaServiceCall("getFirstPC", NoArgs)
PrismaService_addCharacter(data) ==
  PrismaServiceCall("addCharacter", [data |-> data])
PrismaService_updateCharacter(id, data) ==
  PrismaServiceCall("updateCharacter", [id |-> id, data |-> data])
PrismaService_deleteCharacter(id) ==
  PrismaServiceCall("deleteCharacter", [id |-> id])
PrismaService_getCharacterCount == PrismaServiceCall("getCharacterCount", NoArgs)
PrismaService_searchCharacters(searchTerm) ==
  PrismaServiceCall("searchCharacters", [searchTerm |-> searchTerm])
PrismaService_getCharactersByDateRange(startDate, endDate) ==
  PrismaServiceCall("getCharactersByDateRange",
                    [startDate |-> startDate, endDate |-> endDate])

\* The rows of the table in the order of their ids.
PrismaRows(table) ==
  LET ids == SelectSeq([i \in 1 .. MaxRows |-> i], LAMBDA i : i \in DOMAIN table)
  IN  [k \in 1 .. Len(ids) |-> table[ids[k]]]

\* findMany({ where, orderBy: { createdAt: 'desc' } }); rows created at the
\* same time come in the order of their ids.
findMany(table, Where(_)) == SortDescending(Filter(PrismaRows(table), Where))

\* findFirst / findUnique: the first such row, or null.
FirstOrNull(rows) == IF rows = << >> THEN Null ELSE rows[1]

\* What the call on prisma.character of the operation does when it
\* succeeds: the table and the next id it leaves, and the value it resolves
\* with.
PrismaSuccess(op, args, table, next, t) ==
  LET Read(value) == [table |-> table, next |-> next, value |-> value]
      Many(rows) == Read([kind |-> "array", items |-> rows])
  IN  CASE op = "getAllCharacters" -> Many(findMany(table, LAMBDA r : TRUE))
        [] op = "getCharactersBySystem" ->
             Many(findMany(table, LAMBDA r : r.system = args.system))
        [] op = "getCharactersByNpcStatus" ->
             Many(findMany(table, LAMBDA r : r.isNpc = args.isNpc))
        [] op = "getCharacterById" ->
             Read(IF args.id \in DOMAIN table THEN table[args.id] ELSE Null)
        [] op = "getFirstPC" ->
             Read(FirstOrNull(findMany(table, LAMBDA r : ~r.isNpc)))
        [] op = "addCharacter" ->
             [table |-> CacheSet(table, next, PrismaRow(next, args.data, t)),
              next |-> next + 1,
              value |-> PrismaRow(next, args.data, t)]
        [] op = "updateCharacter" ->
             LET row == updatedCharacter(table[args.id], args.data, t)
             IN  [table |-> [table EXCEPT ![args.id] = row], next |-> next,
                  value |-> row]
        [] op = "deleteCharacter" ->
             [table |-> CacheDelete(table, args.id), next |-> next,
              value |-> table[args.id]]
        [] op = "getCharacterCount" ->
             Read([kind |-> "number", value |-> Cardinality(DOMAIN table)])
        [] op = "searchCharacters" ->
             Many(findMany(table,
                           LAMBDA r :
                             \/ includes(LowerCased[r.prompt], LowerCased[args.searchTerm])
                             \/ includes(Chars(r.character.name), Chars(args.searchTerm))))
        [] op = "getCharactersByDateRange" ->
             Many(findMany(table,
                           LAMBDA r : /\ args.startDate <= r.createdAt
                                      /\ r.createdAt <= args.endDate))

\* The call on prisma.character can succeed: create has room for a row, and
\* update and delete find the row (they reject when no row has the id).
PrismaCanSucceed(op, args, table, next) ==
  CASE op = "addCharacter" -> next <= MaxRows
    [] op \in {"updateCharacter", "deleteCharacter"} -> args.id \in DOMAIN table
    [] OTHER -> TRUE

\* Mutant: the catch block answers a failed call with an empty result.
PrismaFailureSwallowed(error) == Resolved([kind |-> "array", items |-> << >>])

\* catch (error) { console.error(...); throw error; }
PrismaFailure(error) == Rejected(error)

\* The awaited call resolves: the operation returns its value.
PrismaCallResolves ==
  /\ prismaCall.pc = "awaiting"
  /\ PrismaCanSucceed(prismaCall.op, prismaCall.args, prismaCharacter, nextId)
  /\ LET r == PrismaSuccess(prismaCall.op, prismaCall.args, prismaCharacter,
                            nextId, now)
     IN  /\ prismaCharacter' = r.table
         /\ nextId' = r.next
         /\ prismaCall' = [prismaCall EXCEPT !.pc = "done",
                                             !.result = Resolved(r.value)]
  /\ UNCHANGED <<responseCache, calls, apiCalls, now, dbCharacters, dbResult,
                 deletedIds, page, UtilityVars>>

\* The awaited call rejects: the catch block logs the error and throws it
\* again.
PrismaCallRejects(error) ==
  /\ prismaCall.pc = "awaiting"
  /\ prismaCall' = [prismaCall EXCEPT !.pc = "done",
                                      !.thrown = error,
                                      !.result = PrismaFailure(error)]
  /\ UNCHANGED <<responseCache, calls, apiCalls, now, dbCharacters, dbResult,
                 deletedIds, prismaCharacter, nextId, page, UtilityVars>>

(***************************************************************************)
(* HomePage: state and handlers.                                           *)
(***************************************************************************)
EnterConceptError == "Please enter a character concept."
GenerateError ==
  "Failed to generate character. The model might be busy or returned an unexpected format. Please try again."
GenerateNpcError ==
  "Failed to generate NPC. The model might be busy or returned an unexpected format. Please try again."
NpcFallbackError == "NPC Generation failed, generating single character instead."
DeleteError == "Failed to delete character"

\* GAME_SYSTEMS: the display name of a system.
SystemName(system) ==
  CASE system = "dnd5e" -> "D&D 5e"
    [] system = "pf2e" -> "Pathfinder 2e"
    [] system = "blades" -> "Blades in the Dark"
    [] OTHER -> "the game"

\* The relationships handleGenerateNpc draws from at random (one of them).
Relationships == {"a sibling"}

\* parentCharacter.character.backstory, joined, or 'a mysterious past'.
\* Reading backstory of a null or undefined character throws (ok = FALSE).
Backstory(character) ==
  LET b == Prop(character, "backstory") IN
  IF ~b.ok THEN [ok |-> FALSE, text |-> ""]
  ELSE IF b.value.kind = "array" THEN [ok |-> TRUE, text |-> b.value.items]
  ELSE [ok |-> TRUE, text |-> "a mysterious past"]

\* const npcPrompt = `Based on the backstory ... ("${backstory}") ...
\*   who is ${relationship} to them ... ${systemName} ...`
NpcPrompt(backstory, relationship, systemName) ==
  "npc(" \o backstory \o ")(" \o relationship \o ")(" \o systemName \o ")"

\* `NPC related to: ${prompt}`
NpcRelatedPrompt(prompt) == "NPC related to: " \o prompt

\* The page: React state (selectedSystem, characters, isLoading, error), the
\* running handler with the values it closed over (handler, pc, system,
\* prompt), the ids whose deletion is in flight, and two history fields of
\* the running handler: before, the table as the handler found it, less
\* what deletions removed since; adds, the addCharacter calls it made.
IdlePage ==
  [pc |-> "idle", handler |-> "none", system |-> "dnd5e", prompt |-> "",
   selectedSystem |-> "dnd5e", characters |-> << >>, error |-> "",
   isLoading |-> FALSE, deleting |-> {}, before |-> EmptyMap, adds |-> 0]

ServiceVars == <<responseCache, calls, apiCalls>>

\* The handler starts: setIsLoading(true); setError(null); and the call of
\* generateSingleCharacter or generateCharacterWithNpcs up to its await.
StartHandler(handler, frame) ==
  /\ StartCached("page", frame)
  /\ page' = [page EXCEPT !.pc = "generating", !.handler = handler,
                          !.system = frame.system, !.prompt = frame.prompt,
                          !.isLoading = TRUE, !.error = "",
                          !.before = prismaCharacter, !.adds = 0]
  /\ UNCHANGED <<responseCache, StoreVars>>

\* Mutant: the handler stores the character whether or not the generation
\* call resolved.
reachesAddCharacterAlways(result) == TRUE

\* Inside try: addCharacter is reached only if the awaited generation call
\* did not throw.
reachesAddCharacter(result) == result.status = "resolved"

\* handleGenerate(prompt), up to its first await.
handleGenerate(prompt) ==
  /\ page.pc = "idle" /\ ~page.isLoading
  /\ IF prompt = ""
     THEN /\ page' = [page EXCEPT !.error = EnterConceptError]
          /\ UNCHANGED <<ServiceVars, StoreVars>>
     ELSE StartHandler("handleGenerate",
                       NewFrame("generateSingleCharacter", page.selectedSystem, prompt, FALSE, 0))

\* handleGenerateNpc(parentCharacter), up to its first await. Reading the
\* backstory happens after setIsLoading(true) and outside try: when it throws
\* the handler ends there.
handleGenerateNpc(parentCharacter, relationship) ==
  /\ page.pc = "idle" /\ ~page.isLoading
  /\ \E i \in 1 .. Len(page.characters) : page.characters[i] = parentCharacter
  /\ LET b == Backstory(parentCharacter.character) IN
     IF ~b.ok
     THEN /\ page' = [page EXCEPT !.isLoading = TRUE, !.error = ""]
          /\ UNCHANGED <<ServiceVars, StoreVars>>
     ELSE StartHandler("handleGenerateNpc",
                       NewFrame("generateSingleCharacter", parentCharacter.system,
                                NpcPrompt(b.text, relationship, SystemName(parentCharacter.system)),
                                FALSE, 0))

\* handleGenerateWithNpcs(prompt), up to its first await.
handleGenerateWithNpcs(prompt) ==
  /\ page.pc = "idle" /\ ~page.isLoading
  /\ IF prompt = ""
     THEN /\ page' = [page EXCEPT !.error = EnterConceptError]
          /\ UNCHANGED <<ServiceVars, StoreVars>>
     ELSE StartHandler("handleGenerateWithNpcs",
                       NewFrame("generateCharacterWithNpcs", page.selectedSystem, prompt, TRUE, 2))

\* finally { setIsLoading(false) }: the handler is over, and its closure and
\* history with it.
Finish(p) ==
  [p EXCEPT !.pc = "idle", !.isLoading = FALSE, !.handler = "none",
            !.system = "dnd5e", !.prompt = "", !.before = EmptyMap, !.adds = 0]

PageFrameVars == <<now, dbCharacters, dbResult, deletedIds, prismaCall, UtilityVars>>

\* handleGenerate and handleGenerateNpc after the await of
\* generateSingleCharacter: addCharacter (which succeeds or fails, ok), then
\* setCharacters; catch sets the error.
SingleResumes(ok) ==
  LET result == calls["page"].result
      isNpc == page.handler = "handleGenerateNpc"
      failure == IF isNpc THEN GenerateNpcError ELSE GenerateError
  IN
  /\ page.pc = "generating"
  /\ page.handler \in {"handleGenerate", "handleGenerateNpc"}
  /\ calls["page"].pc = "done"
  /\ IF reachesAddCharacter(result)
     THEN LET r == addCharacters(prismaCharacter, nextId,
                      <<CharacterData(page.system, page.prompt, result.value, isNpc)>>,
                      <<ok>>, now)
          IN  /\ r.next <= MaxRows + 1
              /\ prismaCharacter' = r.table
              /\ nextId' = r.next
              /\ page' = Finish([page EXCEPT
                           !.adds = @ + 1,
                           !.characters = r.rows \o @,
                           !.error = IF r.ok THEN @ ELSE failure])
     ELSE /\ page' = Finish([page EXCEPT !.error = failure])
          /\ UNCHANGED <<prismaCharacter, nextId>>
  /\ UNCHANGED <<ServiceVars, PageFrameVars>>

\* catch of handleGenerateWithNpcs: setError, then generateSingleCharacter up
\* to its await, after adds calls of addCharacter.
StartFallback(adds) ==
  /\ StartCached("page", NewFrame("generateSingleCharacter", page.system, page.prompt, FALSE, 0))
  /\ page' = [page EXCEPT !.pc = "fallback", !.error = NpcFallbackError,
                          !.adds = @ + adds]
  /\ UNCHANGED responseCache

\* handleGenerateWithNpcs after the await of generateCharacterWithNpcs: the
\* main character is stored, then every NPC (Promise.all over the calls,
\* each of which succeeds or fails on its own); any failure leads to the
\* fallback.
WithNpcsResumes ==
  LET result == calls["page"].result IN
  /\ page.pc = "generating"
  /\ page.handler = "handleGenerateWithNpcs"
  /\ calls["page"].pc = "done"
  /\ IF result.status = "resolved"
     THEN \E oks \in Outcomes(1 + Len(result.value.npcs)) :
            LET main == addCharacters(prismaCharacter, nextId,
                          <<CharacterData(page.system, page.prompt,
                                          result.value.character, FALSE)>>,
                          <<oks[1]>>, now)
                npcData == [i \in 1 .. Len(result.value.npcs) |->
                              CharacterData(page.system, NpcRelatedPrompt(page.prompt),
                                            result.value.npcs[i], TRUE)]
                newNpcs == IF main.ok
                           THEN addCharacters(main.table, main.next, npcData, Tail(oks), now)
                           ELSE [main EXCEPT !.rows = << >>]
                adds == IF main.ok THEN 1 + Len(npcData) ELSE 1
            IN  /\ newNpcs.next <= MaxRows + 1
                /\ prismaCharacter' = newNpcs.table
                /\ nextId' = newNpcs.next
                /\ IF newNpcs.ok
                   THEN /\ page' = Finish([page EXCEPT
                                     !.adds = @ + adds,
                                     !.characters = main.rows \o newNpcs.rows \o @])
                        /\ UNCHANGED ServiceVars
                   ELSE StartFallback(adds)
     ELSE /\ StartFallback(0)
          /\ UNCHANGED <<prismaCharacter, nextId>>
  /\ UNCHANGED PageFrameVars

\* The fallback of handleGenerateWithNpcs after the await of
\* generateSingleCharacter.
FallbackResumes(ok) ==
  LET result == calls["page"].result IN
  /\ page.pc = "fallback"
  /\ calls["page"].pc = "done"
  /\ IF result.status = "resolved"
     THEN LET r == addCharacters(prismaCharacter, nextId,
                      <<CharacterData(page.system, page.prompt, result.value, FALSE)>>,
                      <<ok>>, now)
          IN  /\ r.next <= MaxRows + 1
              /\ prismaCharacter' = r.table
              /\ nextId' = r.next
              /\ page' = Finish([page EXCEPT
                           !.adds = @ + 1,
                           !.characters = r.rows \o @,
                           !.error = IF r.ok THEN @ ELSE GenerateError])
     ELSE /\ page' = Finish([page EXCEPT !.error = GenerateError])
          /\ UNCHANGED <<prismaCharacter, nextId>>
  /\ UNCHANGED <<ServiceVars, PageFrameVars>>

\* handleDeleteCharacter(idToDelete), up to its await. The list it is
\* started from is rendered only while isLoading is false; the user starts
\* one deletion at a time.
handleDeleteCharacter(idToDelete) ==
  /\ ~page.isLoading
  /\ page.deleting = {}
  /\ \E i \in 1 .. Len(page.characters) : page.characters[i].id = idToDelete
  /\ page' = [page EXCEPT !.deleting = @ \cup {idToDelete}]
  /\ UNCHANGED <<ServiceVars, StoreVars>>

\* handleDeleteCharacter after the await: prisma.character.delete rejects
\* when the record is gone or the database call fails (ok = FALSE).
DeleteSettles(idToDelete, ok) ==
  /\ idToDelete \in page.deleting
  /\ IF ok /\ idToDelete \in DOMAIN prismaCharacter
     THEN /\ prismaCharacter' = CacheDelete(prismaCharacter, idToDelete)
          /\ page' = [page EXCEPT
                        !.deleting = @ \ {idToDelete},
                        !.characters = SelectSeq(@, LAMBDA c : c.id # idToDelete),
                        !.before = CacheDelete(@, idToDelete)]
     ELSE /\ page' = [page EXCEPT !.deleting = @ \ {idToDelete}, !.error = DeleteError]
          /\ UNCHANGED prismaCharacter
  /\ UNCHANGED <<ServiceVars, now, dbCharacters, dbResult, deletedIds, nextId, prismaCall,
                 UtilityVars>>

(***************************************************************************)
(* The export formatter (mdxExporter): one template per system, then the   *)
(* download of the document through a link.                                *)
(***************************************************************************)
\* The longest field value of an exported character, in characters.
MaxFieldLen == 2

\* The characters the values of an exported character are made of: a
\* letter, a double quote and a line feed.
ExportAlphabet == {"A", "\"", "\n"}

\* Every text of at most n characters.
TextsUpTo(n) == UNION { [1 .. k -> ExportAlphabet] : k \in 0 .. n }

\* The identifying fields of each template, in the order of its
\* frontmatter (title is char.name).
FrontmatterFields(system) ==
  CASE system = "dnd5e" -> <<"race", "class", "background", "alignment">>
    [] system = "pf2e" -> <<"ancestry", "heritage", "class", "background", "alignment">>
    [] system = "blades" -> <<"playbook", "heritage", "background", "vice">>
    [] OTHER -> << >>

\* The characters given to the exporter, of the shape of system: any name,
\* and one of two texts in the identifying fields.
ExportCharacters(system) ==
  LET fields == FrontmatterFields(system)
      keys == {"name"} \cup { fields[i] : i \in 1 .. Len(fields) }
  IN  { [k \in keys |-> IF k = "name" THEN name ELSE text] :
          name \in TextsUpTo(MaxFieldLen), text \in {<<"A">>, <<"A", "\"">>} }

\* The stored records given to the exporter: the three systems, and a
\* record whose system tag is none of them.
ExportRecord(system, c) ==
  [id |-> "id1", system |-> system, prompt |-> "p", character |-> c,
   isNpc |-> FALSE, createdAt |-> 0, updatedAt |-> 0]
ExportRecords ==
  UNION { { ExportRecord(system, c) : c \in ExportCharacters(system) } :
            system \in GameSystem }
    \cup { ExportRecord("gurps", c) : c \in ExportCharacters("dnd5e") }

\* One line of a frontmatter block: key: "value"
FrontmatterLine(key, value) ==
  Chars(key) \o <<":", " ", "\"">> \o value \o <<"\"", "\n">>

\* The frontmatter block of a template, between its two --- lines, and the
\* heading that follows it. The tables and lists after the heading are not
\* kept.
RECURSIVE FieldLines(_, _)
FieldLines(char, fields) ==
  IF fields = << >> THEN << >>
  ELSE FrontmatterLine(Head(fields), char[Head(fields)]) \o FieldLines(char, Tail(fields))

TemplateMdx(char, system) ==
  Chars("---") \o <<"\n">>
    \o FrontmatterLine("title", char.name)
    \o FrontmatterLine("system", Chars(SystemName(system)))
    \o FieldLines(char, FrontmatterFields(system))
    \o Chars("---") \o <<"\n">>
    \o <<"\n">> \o Chars("# ") \o char.name \o <<"\n">>

generateDndMdx(char) == TemplateMdx(char, "dnd5e")
generatePf2eMdx(char) == TemplateMdx(char, "pf2e")
generateBladesMdx(char) == TemplateMdx(char, "blades")

\* name.replace(/[^a-z0-9]/gi, '_').toLowerCase()
sanitizeFilename(name) ==
  toLowerCase([i \in 1 .. Len(name) |->
                 IF name[i] \in {"A", "a", "P", "p", "X", "x", "z"} THEN name[i] ELSE "_"])

\* What an export call left behind: the record it was given, how it ended
\* ("returned" or "thrown"), the document, what console.error was called
\* with, and the files the link click downloaded.
ExportCall(input, outcome, mdxContent, logged, downloads) ==
  [input |-> input, outcome |-> outcome, mdxContent |-> mdxContent,
   logged |-> logged, downloads |-> downloads]
IdleExportCall == ExportCall(Undefined, "none", << >>, "", << >>)

UnknownSystemMessage == "Unknown system for MDX export"

\* The switch of exportCharacterAsMdx on a supported system.
mdxContentOf(storedCharacter) ==
  CASE storedCharacter.system = "dnd5e" -> generateDndMdx(storedCharacter.character)
    [] storedCharacter.system = "pf2e" -> generatePf2eMdx(storedCharacter.character)
    [] storedCharacter.system = "blades" -> generateBladesMdx(storedCharacter.character)

\* exportCharacterAsMdx(storedCharacter): the default branch of the switch
\* logs and returns; the other branches build the document and download it
\* under the sanitized name.
exportCharacterAsMdx(storedCharacter) ==
  /\ exportCall' =
       IF storedCharacter.system \in GameSystem
       THEN LET mdxContent == mdxContentOf(storedCharacter)
                charName == storedCharacter.character.name
            IN  ExportCall(storedCharacter, "returned", mdxContent, "",
                           << [download |-> sanitizeFilename(charName) \o Chars(".mdx"),
                               content |-> mdxContent] >>)
       ELSE ExportCall(storedCharacter, "returned", << >>, UnknownSystemMessage, << >>)
  /\ UNCHANGED <<responseCache, calls, apiCalls, now, dbCharacters, dbResult, deletedIds,
                 prismaCharacter, nextId, prismaCall, page,
                 mediaCall, localStorage, verno, backup>>

(***************************************************************************)
(* generateCharacterWithMedia (pollinations-example): the character, then  *)
(* its image, then its audio.                                              *)
(***************************************************************************)
ImageBuffer == [kind |-> "buffer"]
AudioResponse == [kind |-> "audio"]
ImageError == "Failed to generate character image with Pollinations API."
AudioError == "Failed to generate character audio with Pollinations API."

\* How PollinationsService.generateCharacterImage settles: the buffer, or
\* its own error.
ImageOutcomes == { Resolved(ImageBuffer), Rejected(ImageError) }

\* How PollinationsService.generateCharacterAudio settles: the audio
\* response, null (no audio model, or a 402 answer), or its own error.
AudioOutcomes == { Resolved(AudioResponse), Resolved(Null), Rejected(AudioError) }

\* The frame of a generateCharacterWithMedia call: where it is, how each of
\* the three awaited calls settled, how often the image and the audio
\* function were called, and how the call itself settled.
IdleMediaCall ==
  [pc |-> "idle", system |-> "dnd5e", prompt |-> "",
   generation |-> Pending, image |-> Pending, audio |-> Pending,
   imageCalls |-> 0, audioCalls |-> 0, result |-> Pending]

NotMediaVars ==
  <<responseCache, calls, apiCalls, now, dbCharacters, dbResult, deletedIds,
    prismaCharacter, nextId, prismaCall, page,
    exportCall, localStorage, verno, backup>>

\* let imageBuffer / let audioData: undefined unless the await resolved.
AssignedIfResolved(outcome) ==
  IF outcome.status = "resolved" THEN outcome.value ELSE Undefined

\* return { character, imageBuffer, audioData }
MediaResult(character, imageBuffer, audioData) ==
  [kind |-> "object", character |-> character, imageBuffer |-> imageBuffer,
   audioData |-> audioData]

\* generateCharacterWithMedia up to its first await.
generateCharacterWithMedia(system, prompt) ==
  /\ mediaCall.pc \in {"idle", "done"}
  /\ mediaCall' = [IdleMediaCall EXCEPT !.pc = "character", !.system = system,
                                        !.prompt = prompt]
  /\ UNCHANGED NotMediaVars

\* Mutant: a failed image call ends the whole call with the outer error.
afterImageAborting(frame, outcome) ==
  IF outcome.status = "rejected"
  THEN [frame EXCEPT !.image = outcome, !.pc = "done",
                     !.result = Rejected(PollinationsError)]
  ELSE [frame EXCEPT !.image = outcome, !.pc = "audio", !.audioCalls = 1]

\* The inner try around the image call: its catch warns and goes on to the
\* audio call.
afterImage(frame, outcome) ==
  [frame EXCEPT !.image = outcome, !.pc = "audio", !.audioCalls = 1]

\* PollinationsService.generateCharacter has settled. A rejection reaches
\* the outer catch, which throws its own error. Otherwise the image prompt
\* reads character.name inside the inner try: on null that is a TypeError
\* the inner catch takes for a failed image, without an image call.
MediaCharacterSettles(reply) ==
  /\ mediaCall.pc = "character"
  /\ LET generation == pollinationsResume(reply)
         frame == [mediaCall EXCEPT !.generation = generation]
     IN  mediaCall' =
           IF generation.status = "rejected"
           THEN [frame EXCEPT !.pc = "done", !.result = Rejected(PollinationsError)]
           ELSE IF Prop(generation.value, "name").ok
                THEN [frame EXCEPT !.pc = "image", !.imageCalls = 1]
                ELSE afterImage(frame, Rejected(TypeError))
  /\ UNCHANGED NotMediaVars

\* PollinationsService.generateCharacterImage has settled.
MediaImageSettles(outcome) ==
  /\ mediaCall.pc = "image"
  /\ mediaCall' = afterImage(mediaCall, outcome)
  /\ UNCHANGED NotMediaVars

\* PollinationsService.generateCharacterAudio has settled: its catch warns,
\* and the call returns the character with what was assigned.
MediaAudioSettles(outcome) ==
  /\ mediaCall.pc = "audio"
  /\ mediaCall' =
       [mediaCall EXCEPT
          !.audio = outcome, !.pc = "done",
          !.result = Resolved(MediaResult(mediaCall.generation.value,
                                          AssignedIfResolved(mediaCall.image),
                                          AssignedIfResolved(outcome)))]
  /\ UNCHANGED NotMediaVars

(***************************************************************************)
(* TtrpgDatabase: the upgrade to schema version 2, which moves the         *)
(* characters saved in localStorage into the table.                        *)
(***************************************************************************)
SavedKey == "ttrpg-characters"

\* The characters an earlier version of the application saved: records
\* without timestamps.
OldCharacters(ids) == { r \in AddRequests : r.id \in ids }

\* The texts found under the key: JSON arrays of saved characters (one of
\* them holding the same id twice), the JSON text null, and text that is
\* not JSON.
SavedArrays ==
  { << >> }
    \cup { <<r1>> : r1 \in OldCharacters({"id1"}) }
    \cup { <<r1, r2>> : r1 \in OldCharacters({"id1"}), r2 \in OldCharacters({"id2"}) }
    \cup { <<r1, r1>> : r1 \in OldCharacters({"id1"}) }
SavedTexts ==
  { JsonText([kind |-> "array", items |-> a]) : a \in SavedArrays }
    \cup MalformedPayloads

\* The contents of localStorage, and of the characters table of a version 1
\* database.
LocalStorages ==
  { EmptyMap } \cup { [k \in {SavedKey} |-> text] : text \in SavedTexts }
RECURSIVE TableOf(_)
TableOf(rows) ==
  IF rows = << >> THEN EmptyMap
  ELSE CacheSet(TableOf(Tail(rows)), Head(rows).id, Head(rows))
Version1Tables ==
  { TableOf(rows) : rows \in { << >> } \cup { <<r>> : r \in StoredRequests }
                              \cup { <<r1, r2>> : r1 \in { r \in StoredRequests : r.id = "id1" },
                                                 r2 \in { r \in StoredRequests : r.id = "id3" } } }

\* localStorage.getItem(key): the text, or null.
getItem(storage, key) ==
  IF key \in DOMAIN storage THEN storage[key] ELSE Null

\* ({ ...char, createdAt: char.createdAt || now, updatedAt: char.updatedAt || now })
\* of a saved character, which has neither timestamp.
charactersToMigrate(oldCharacters, t) ==
  [k \in 1 .. Len(oldCharacters) |-> newCharacter(oldCharacters[k], t)]

\* No two rows share a primary key.
DistinctKeys(rows) ==
  \A i, j \in 1 .. Len(rows) : rows[i].id = rows[j].id => i = j

\* table.bulkAdd(rows) on the rows whose add succeeds: a row whose key is
\* already there fails with a ConstraintError and the others are added.
RECURSIVE bulkAdd(_, _)
bulkAdd(table, rows) ==
  IF rows = << >> THEN table
  ELSE IF Head(rows).id \in DOMAIN table THEN bulkAdd(table, Tail(rows))
  ELSE bulkAdd(CacheSet(table, Head(rows).id, Head(rows)), Tail(rows))

\* Every add of table.bulkAdd(rows) succeeds.
bulkAddSucceeds(table, rows) ==
  /\ DistinctKeys(rows)
  /\ \A i \in 1 .. Len(rows) : rows[i].id \notin DOMAIN table

\* The table the upgrade function of version 2 leaves when its promise
\* resolves: cleared, then filled from the saved text. JSON.parse and map
\* run inside the try, whose catch resolves; the promise of bulkAdd is
\* returned from the try and is not covered by the catch.
upgradedTable(storage, t) ==
  LET saved == getItem(storage, SavedKey) IN
  IF saved = Null THEN EmptyMap
  ELSE IF ~JSONparse(saved).ok THEN EmptyMap
  ELSE IF JSONparse(saved).value.kind # "array" THEN EmptyMap
  ELSE bulkAdd(EmptyMap, charactersToMigrate(JSONparse(saved).value.items, t))

\* The bulkAdd of the upgrade function rejects.
upgradeRejects(storage) ==
  LET saved == getItem(storage, SavedKey) IN
  /\ saved # Null
  /\ JSONparse(saved).ok
  /\ JSONparse(saved).value.kind = "array"
  /\ ~DistinctKeys(JSONparse(saved).value.items)

\* A JavaScript boolean.
Boolean(b) == [kind |-> "boolean", value |-> b]

\* How a call of the database or of the migration utilities settled, with
\* the value it returned.
MigrationResult(op, ok, value) ==
  [op |-> op, id |-> "", ok |-> ok, rows |-> << >>, value |-> value]

NotTableVars ==
  <<responseCache, calls, apiCalls, deletedIds, prismaCharacter, nextId, prismaCall,
    page, exportCall, mediaCall>>

\* db.open() on a database at version 1: the upgrade function runs in the
\* version change transaction. When its promise rejects the transaction
\* aborts, the database stays as it was and open fails.
upgradeToVersion2 ==
  /\ verno = 1
  /\ IF upgradeRejects(localStorage)
     THEN /\ dbResult' = MigrationResult("open", FALSE, Undefined)
          /\ UNCHANGED <<dbCharacters, verno>>
     ELSE /\ dbCharacters' = upgradedTable(localStorage, now)
          /\ verno' = 2
          /\ dbResult' = MigrationResult("open", TRUE, Undefined)
  /\ UNCHANGED <<NotTableVars, now, localStorage, backup>>

(***************************************************************************)
(* migrationService: backup, restore and validation of the table.          *)
(***************************************************************************)
\* Records that fail the check of validateDatabase: an empty system, and a
\* character that is null.
InvalidRecords ==
  { [newCharacter(r, 0) EXCEPT !.system = ""] : r \in OldCharacters({"id1"}) }
    \cup { [newCharacter(r, 0) EXCEPT !.id = "id6", !.character = Null] :
             r \in OldCharacters({"id1"}) }

\* A stored record under another key.
WithId(record, id) == [record EXCEPT !.id = id]

\* The arrays callers pass to restoreDatabase besides a backup they took:
\* one record, the same id twice, an invalid record alone, and more records
\* than validateDatabase samples, the last of them invalid.
RestoreArrays ==
  LET r1 == CHOOSE r \in StoredRequests : r.id = "id1"
      r2 == CHOOSE r \in StoredRequests : r.id = "id2"
      bad1 == CHOOSE r \in InvalidRecords : r.id = "id1"
      bad6 == CHOOSE r \in InvalidRecords : r.id = "id6"
  IN  { <<r2>>, <<r1, WithId(r2, "id1")>>, <<bad1>>,
        <<r1, r2, WithId(r1, "id3"), WithId(r1, "id4"), WithId(r1, "id5"), bad6>> }

\* backupDatabase(): db.characters.toArray(), or the error of the table
\* when it cannot be read.
backupDatabase(readable) ==
  /\ IF readable
     THEN /\ backup' = toArray(dbCharacters)
          /\ dbResult' = MigrationResult("backupDatabase", TRUE,
                                          [kind |-> "array", items |-> toArray(dbCharacters)])
     ELSE /\ dbResult' = MigrationResult("backupDatabase", FALSE, Undefined)
          /\ UNCHANGED backup
  /\ UNCHANGED <<NotTableVars, now, dbCharacters, localStorage, verno>>

\* Mutant: the restore adds the backup to the records already there.
restoredTableKeepingCurrent(table, backupData) == bulkAdd(table, backupData)

\* The table after db.characters.clear() and db.characters.bulkAdd(backupData).
restoredTable(table, backupData) == bulkAdd(EmptyMap, backupData)

\* restoreDatabase(backupData): clear, then bulkAdd, each in a transaction
\* of its own. When an add fails bulkAdd rejects and the error is rethrown;
\* the adds that succeeded are committed or not (committed), the clear is.
restoreDatabase(backupData, committed) ==
  /\ IF bulkAddSucceeds(EmptyMap, backupData)
     THEN /\ committed
          /\ dbCharacters' = restoredTable(dbCharacters, backupData)
          /\ dbResult' = MigrationResult("restoreDatabase", TRUE, Undefined)
     ELSE /\ dbCharacters' = IF committed THEN restoredTable(dbCharacters, backupData)
                                           ELSE EmptyMap
          /\ dbResult' = MigrationResult("restoreDatabase", FALSE, Undefined)
  /\ UNCHANGED <<NotTableVars, now, backup, localStorage, verno>>

\* !char.id || !char.system || !char.character
IsInvalid(char) ==
  \/ char.id = ""
  \/ char.system = ""
  \/ char.character.kind \in {"null", "undefined"}

\* db.characters.limit(n).toArray(): the first n records in key order.
limit(table, n) == Slice(toArray(table), n)

\* The number of records validateDatabase samples.
SampleSize == 5

\* const sampleCharacters = await db.characters.limit(5).toArray()
sampleCharacters(table) == limit(table, SampleSize)

\* validateDatabase(): false at the first invalid record of the sample and
\* when the table cannot be read (the catch returns false), true otherwise.
validateDatabase(readable) ==
  /\ dbResult' =
       MigrationResult("validateDatabase", TRUE,
         Boolean(IF ~readable THEN FALSE
                 ELSE LET sample == sampleCharacters(dbCharacters)
                      IN  \A i \in 1 .. Len(sample) : ~IsInvalid(sample[i])))
  /\ UNCHANGED <<NotTableVars, now, dbCharacters, backup, localStorage, verno>>

(***************************************************************************)
(* Initial state and the specification of the generation services used by  *)
(* independent callers.                                                    *)
(***************************************************************************)
Init ==
  /\ responseCache = EmptyMap
  /\ calls = [c \in Callers |-> IdleFrame]
  /\ apiCalls = 0
  /\ now = 0
  /\ dbCharacters = EmptyMap
  /\ dbResult = NoResult
  /\ deletedIds = {}
  /\ prismaCharacter = EmptyMap
  /\ nextId = 1
  /\ prismaCall = IdlePrismaCall
  /\ page = IdlePage
  /\ exportCall = IdleExportCall
  /\ mediaCall = IdleMediaCall
  /\ localStorage = EmptyMap
  /\ verno = 2
  /\ backup = << >>

\* Concurrent callers of the cached generation service. The cache is
\* exercised on two of the systems; every exported function is exercised on
\* all three under SpecApi.
ServiceCallers == {"c1", "c2"}
CacheSystems == {"dnd5e", "pf2e"}

NextService ==
  \/ \E c \in ServiceCallers, s \in CacheSystems, p \in Prompts, b \in BOOLEAN :
       generateCharacter(c, s, p, b)
  \/ \E c \in ServiceCallers, s \in CacheSystems : getCharacterSuggestions(c, s)
  \/ \E s \in CacheSystems : refreshSuggestions(s)
  \/ \E c \in ServiceCallers : \E text \in PayloadsFor(calls[c]) :
       ServiceReplies(c, text)
  \/ \E c \in ServiceCallers : ServiceRejects(c)

SpecService == Init /\ [][NextService]_vars

\* One caller using every exported function of the Gemini service, one
\* call after the other.
NpcCounts == 0 .. 3

NextApi ==
  \/ \E s \in GameSystem, p \in Prompts, b \in BOOLEAN :
       generateCharacter("c1", s, p, b)
  \/ \E s \in GameSystem, p \in Prompts : generateSingleCharacter("c1", s, p)
  \/ \E s \in GameSystem, p \in Prompts, n \in NpcCounts :
       generateCharacterWithNpcs("c1", s, p, n)
  \/ \E s \in GameSystem : getCharacterSuggestions("c1", s)
  \/ \E s \in GameSystem : refreshSuggestions(s)
  \/ \E text \in PayloadsFor(calls["c1"]) : ServiceReplies("c1", text)
  \/ ServiceRejects("c1")

SpecApi == Init /\ [][NextApi]_vars

\* Two callers of the Pollinations service.
NextPollinations ==
  \/ \E c \in ServiceCallers, s \in GameSystem, p \in Prompts :
       PollinationsGenerateCharacter(c, s, p)
  \/ \E c \in ServiceCallers : \E text \in PayloadsFor(calls[c]) :
       ServiceReplies(c, text)
  \/ \E c \in ServiceCallers : ServiceRejects(c)

SpecPollinations == Init /\ [][NextPollinations]_vars

\* The DatabaseService used by one caller, one call after the other, while
\* time passes.
NextStore ==
  \/ Tick
  \/ \E character \in AddRequests : addCharacter(character)
  \/ \E id \in CharacterIds, updates \in Updates : updateCharacter(id, updates)
  \/ \E id \in CharacterIds : deleteCharacter(id) /\ UNCHANGED deletedIds
  \/ getAllCharacters
  \/ \E id \in CharacterIds : getCharacterById(id)
  \/ \E searchTerm \in SearchTerms : searchCharacters(searchTerm)
  \/ \E system \in CacheSystems : getCharactersBySystem(system)
  \/ \E isNpc \in BOOLEAN : getCharactersByNpcStatus(isNpc)
  \/ \E startDate \in 0 .. MaxTime, endDate \in 0 .. MaxTime :
       startDate <= endDate /\ getCharactersByDateRange(startDate, endDate)

SpecStore == Init /\ [][NextStore]_vars

\* The PrismaService used by one caller, one call after the other, within
\* one reading of the clock; each call on prisma.character succeeds or
\* fails.
NextPrisma ==
  \/ PrismaService_getAllCharacters
  \/ \E system \in CacheSystems : PrismaService_getCharactersBySystem(system)
  \/ \E isNpc \in BOOLEAN : PrismaService_getCharactersByNpcStatus(isNpc)
  \/ \E id \in 1 .. MaxRows : PrismaService_getCharacterById(id)
  \/ PrismaService_getFirstPC
  \/ \E data \in PrismaData : PrismaService_addCharacter(data)
  \/ \E id \in 1 .. MaxRows, data \in Updates : PrismaService_updateCharacter(id, data)
  \/ \E id \in 1 .. MaxRows : PrismaService_deleteCharacter(id)
  \/ PrismaService_getCharacterCount
  \/ \E searchTerm \in SearchTerms : PrismaService_searchCharacters(searchTerm)
  \/ \E d \in PrismaDateRanges : PrismaService_getCharactersByDateRange(d[1], d[2])
  \/ PrismaCallResolves
  \/ \E error \in DatabaseErrors : PrismaCallRejects(error)

SpecPrisma == Init /\ [][NextPrisma]_vars

\* The writes of the DatabaseService over the lifetime of the store, with
\* the history of its deletions.
NextLifetime ==
  \/ Tick
  \/ \E character \in AddRequests : addCharacter(character)
  \/ \E id \in CharacterIds, updates \in Updates : updateCharacter(id, updates)
  \/ \E id \in CharacterIds : deleteCharacter(id) /\ RecordsDeletion(id)
  \/ \E characters \in BulkRequests : bulkUpsert(characters) /\ UNCHANGED deletedIds

SpecLifetime == Init /\ [][NextLifetime]_vars

\* The HomePage in use, on the system it starts with
\* (useState(GameSystem.DND5E)): the user starts handlers, the generation
\* service and the database answer.
NextPage ==
  \/ \E prompt \in Prompts : handleGenerate(prompt)
  \/ \E i \in 1 .. Len(page.characters), relationship \in Relationships :
       handleGenerateNpc(page.characters[i], relationship)
  \/ \E prompt \in Prompts : handleGenerateWithNpcs(prompt)
  \/ \E text \in PayloadsFor(calls["page"]) : ServiceReplies("page", text)
  \/ ServiceRejects("page")
  \/ \E ok \in BOOLEAN : SingleResumes(ok)
  \/ WithNpcsResumes
  \/ \E ok \in BOOLEAN : FallbackResumes(ok)
  \/ \E id \in 1 .. MaxRows : handleDeleteCharacter(id)
  \/ \E id \in 1 .. MaxRows, ok \in BOOLEAN : DeleteSettles(id, ok)

SpecPage == Init /\ [][NextPage]_vars

\* The export formatter given one stored record after the other.
NextExport ==
  \E storedCharacter \in ExportRecords : exportCharacterAsMdx(storedCharacter)

SpecExport == Init /\ [][NextExport]_vars

\* One caller of generateCharacterWithMedia, one call after the other; the
\* three services it awaits answer or fail.
NextMedia ==
  \/ \E system \in GameSystem, prompt \in Prompts :
       generateCharacterWithMedia(system, prompt)
  \/ \E reply \in SinglePayloads(mediaCall.system) \cup MalformedPayloads \cup {RejectedReply} :
       MediaCharacterSettles(reply)
  \/ \E outcome \in ImageOutcomes : MediaImageSettles(outcome)
  \/ \E outcome \in AudioOutcomes : MediaAudioSettles(outcome)

SpecMedia == Init /\ [][NextMedia]_vars

\* A browser that holds a version 1 database and what an earlier version
\* of the application saved in localStorage opens the database, at any
\* time.
InitUpgrade ==
  /\ responseCache = EmptyMap
  /\ calls = [c \in Callers |-> IdleFrame]
  /\ apiCalls = 0
  /\ now \in 0 .. MaxTime
  /\ dbCharacters \in Version1Tables
  /\ dbResult = NoResult
  /\ deletedIds = {}
  /\ prismaCharacter = EmptyMap
  /\ nextId = 1
  /\ prismaCall = IdlePrismaCall
  /\ page = IdlePage
  /\ exportCall = IdleExportCall
  /\ mediaCall = IdleMediaCall
  /\ localStorage \in LocalStorages
  /\ verno = 1
  /\ backup = << >>

NextUpgrade == upgradeToVersion2

SpecUpgrade == InitUpgrade /\ [][NextUpgrade]_vars

\* The migration utilities used next to the writes of the DatabaseService
\* on two of the ids, within one reading of the clock.
MigrationIds == {"id1", "id2"}

NextMigration ==
  \/ \E character \in OldCharacters(MigrationIds) : addCharacter(character)
  \/ \E id \in MigrationIds, updates \in Updates : updateCharacter(id, updates)
  \/ \E id \in MigrationIds : deleteCharacter(id) /\ UNCHANGED deletedIds
  \/ \E readable \in BOOLEAN : backupDatabase(readable)
  \/ \E backupData \in {backup} \cup RestoreArrays, committed \in BOOLEAN :
       restoreDatabase(backupData, committed)
  \/ \E readable \in BOOLEAN : validateDatabase(readable)

SpecMigration == Init /\ [][NextMigration]_vars

(***************************************************************************)
(* Claims about the generation services.                                   *)
(***************************************************************************)
Done(c) == calls[c].pc = "done"

\* The frame of c got a text that JSON.parse rejects.
ParseFailed(f) == f.reply.t \in {"json", "garbage"} /\ ~JSONparse(f.reply).ok

\* The outbound call of the frame was rejected by the service.
ServiceFailed(f) == f.reply.t = "rejected"

\* A step in which c starts a call (a frame that is not awaiting changes).
Starts(c) == calls[c].pc # "awaiting" /\ calls'[c] # calls[c]

\* A step in which the awaiting call of c settles.
Settles(c) == calls[c].pc = "awaiting" /\ calls'[c].pc = "done"

\* C1: for every GameSystem, when the service returns a payload that parses
\* as a character valid for the system's single-character schema,
\* generateSingleCharacter resolves to that parsed character.
C1_SingleResolvesToPayload ==
  \A c \in Callers :
    ( /\ Done(c)
      /\ calls[c].op = "generateSingleCharacter"
      /\ calls[c].reply.t = "json"
      /\ ValidSingle(calls[c].reply.v, calls[c].system) )
    => calls[c].result = Resolved(calls[c].reply.v)

\* A call that starts while the cache holds its key is served the cached
\* value and issues no outbound call.
HitServed ==
  \A c \in Callers :
    ( /\ Starts(c)
      /\ calls'[c].op = "generateCharacter"
      /\ FrameKey(calls'[c]) \in DOMAIN responseCache )
    => /\ calls'[c].pc = "done"
       /\ ~calls'[c].sent
       /\ calls'[c].result = Resolved(responseCache[FrameKey(calls'[c])])
       /\ apiCalls' = apiCalls

\* No character entry of the cache changes its value.
CharacterEntriesFixed ==
  \A k \in DOMAIN responseCache \cap CharacterKeys :
    k \in DOMAIN responseCache' /\ responseCache'[k] = responseCache[k]

\* C4: once a triple has succeeded, every later generateCharacter call with
\* it resolves to the same parsed value without an outbound call, whatever
\* other calls happen in between: a call that finds the entry is served it,
\* and a character entry is never removed or replaced.
C4_EntryNeverReplaced == [][HitServed /\ CharacterEntriesFixed]_vars

\* A generateCharacter call of c fails in this step.
FailsNow(c) ==
  /\ Settles(c)
  /\ calls[c].op = "generateCharacter"
  /\ (ServiceFailed(calls'[c]) \/ ParseFailed(calls'[c]))

\* A failing call rejects and leaves the cache as it was.
FailureLeavesCache ==
  \A c \in Callers :
    FailsNow(c) => calls'[c].result.status = "rejected" /\ responseCache' = responseCache

\* A call that starts while the cache lacks its key issues an outbound call.
MissIssuesCall ==
  \A c \in Callers :
    ( /\ Starts(c)
      /\ calls'[c].op = "generateCharacter"
      /\ FrameKey(calls'[c]) \notin DOMAIN responseCache )
    => calls'[c].sent /\ calls'[c].pc = "awaiting" /\ apiCalls' = apiCalls + 1

\* C5: a failing generateCharacter call rejects and leaves the cache
\* unchanged, and the cache holds nothing for its triple afterwards, so that
\* the next call with the triple issues a fresh outbound call.
C5_FailureThenFreshCall ==
  [][ /\ FailureLeavesCache
      /\ MissIssuesCall
      /\ \A c \in Callers :
           FailsNow(c) => FrameKey(calls[c]) \notin DOMAIN responseCache' ]_vars

\* C6: an adapter fails on an unparseable payload with an error distinct
\* from the one it raises on a network/service failure.
C6_ParseErrorDistinct ==
  \A c, d \in Callers :
    ( /\ Done(c) /\ Done(d)
      /\ calls[c].op = calls[d].op
      /\ calls[c].op \in {"generateCharacter", "PollinationsService.generateCharacter"}
      /\ calls[c].reply.t = "garbage"
      /\ ServiceFailed(calls[d]) )
    => /\ calls[c].result.status = "rejected"
       /\ calls[d].result.status = "rejected"
       /\ calls[c].result.error # calls[d].result.error

(***************************************************************************)
(* Claims about the DatabaseService.                                       *)
(***************************************************************************)
\* The rows are ordered by createdAt, descending.
NewestFirst(rows) ==
  \A i, j \in 1 .. Len(rows) : i < j => rows[i].createdAt >= rows[j].createdAt

\* The rows hold every record of the table exactly once.
EveryRecordOnce(rows, table) ==
  /\ Len(rows) = Cardinality(DOMAIN table)
  /\ \A id \in DOMAIN table : \E i \in 1 .. Len(rows) : rows[i] = table[id]

\* C8: after any sequence of add, update and delete operations,
\* getAllCharacters returns every stored record exactly once, ordered by
\* createdAt descending.
C8_GetAllNewestFirst ==
  dbResult.op = "getAllCharacters"
  => /\ EveryRecordOnce(dbResult.rows, dbCharacters)
     /\ NewestFirst(dbResult.rows)

\* C8 witness: getAllCharacters returned three records created at three
\* different times T3 > T2 > T1, in that order, the newest not being the one
\* with the greatest key, one of them updated since it was added.
C8_Witness ==
  /\ dbResult.op = "getAllCharacters"
  /\ Len(dbResult.rows) = 3
  /\ dbResult.rows[1].createdAt > dbResult.rows[2].createdAt
  /\ dbResult.rows[2].createdAt > dbResult.rows[3].createdAt
  /\ dbResult.rows[1].id = "id2"
  /\ \E i \in 1 .. 3 : dbResult.rows[i].prompt = "X"

\* C9: getCharactersBySystem, getCharactersByNpcStatus and
\* getCharactersByDateRange each return their rows newest-first (createdAt
\* descending), the order getAllCharacters uses.
C9_FilteredNewestFirst ==
  dbResult.op \in {"getCharactersBySystem", "getCharactersByNpcStatus",
                   "getCharactersByDateRange"}
  => NewestFirst(dbResult.rows)

\* C10: updateCharacter(id, {prompt: "X"}) on an existing record leaves its
\* id and createdAt unchanged, sets its prompt to "X", and sets updatedAt to
\* a value strictly greater than its previous updatedAt.
C10_UpdateStampsLater ==
  [][ \A id \in CharacterIds :
        (id \in DOMAIN dbCharacters /\ updateCharacter(id, [prompt |-> "X"]))
        => /\ id \in DOMAIN dbCharacters'
           /\ dbCharacters'[id].id = dbCharacters[id].id
           /\ dbCharacters'[id].createdAt = dbCharacters[id].createdAt
           /\ dbCharacters'[id].prompt = "X"
           /\ dbCharacters'[id].updatedAt > dbCharacters[id].updatedAt ]_vars

(***************************************************************************)
(* Claims about the generation adapter's input and the HomePage handlers.  *)
(***************************************************************************)
\* C7: generateCharacter, generateSingleCharacter and
\* generateCharacterWithNpcs called with an empty-string prompt fail with a
\* validation error and make no outbound call.
C7_EmptyPromptRejected ==
  \A c \in Callers :
    ( /\ calls[c].op \in {"generateCharacter", "generateSingleCharacter",
                          "generateCharacterWithNpcs"}
      /\ calls[c].prompt = "" )
    => /\ ~calls[c].sent
       /\ calls[c].pc = "done"
       /\ calls[c].result.status = "rejected"

\* A step that ends an invocation of handleGenerate or handleGenerateNpc
\* whose generation call failed.
EndsFailedGeneration ==
  /\ page.pc = "generating"
  /\ page.handler \in {"handleGenerate", "handleGenerateNpc"}
  /\ calls["page"].pc = "done"
  /\ calls["page"].result.status = "rejected"
  /\ page'.pc = "idle"

\* C2: when the generation call of handleGenerate or handleGenerateNpc fails
\* (service error or unparseable payload), the invocation never calls
\* addCharacter, and when it completes the store holds the records it held
\* when the handler started.
C2_FailedGenerationStoresNothing ==
  [][ EndsFailedGeneration
      => /\ ~reachesAddCharacter(calls["page"].result)
         /\ page.adds = 0
         /\ nextId' = nextId
         /\ prismaCharacter' = page.before ]_vars

\* C2 witness: handleGenerateNpc has completed after its generation call
\* failed on an unparseable payload, over a store that holds records.
C2_Witness ==
  /\ page.pc = "idle" /\ ~page.isLoading
  /\ page.error = GenerateNpcError
  /\ calls["page"].op = "generateSingleCharacter"
  /\ calls["page"].result = Rejected(InvalidFormatError)
  /\ prismaCharacter # EmptyMap

\* C3: one invocation of handleGenerateWithNpcs stores the main (non-NPC)
\* character at most once, whatever the generation and persistence
\* outcomes.
C3_MainStoredAtMostOnce ==
  [][ page.handler = "handleGenerateWithNpcs"
      => Cardinality({ id \in DOMAIN prismaCharacter' \ DOMAIN page.before :
                         ~prismaCharacter'[id].isNpc }) <= 1 ]_vars

(***************************************************************************)
(* Further claims about the DatabaseService.                               *)
(***************************************************************************)
\* C11: updateCharacter(id, updates) with an id that is not in the store
\* fails (with a not-found error) and leaves the store unchanged.
C11_UpdateMissingFails ==
  [][ \A id \in CharacterIds, updates \in Updates :
        (id \notin DOMAIN dbCharacters /\ updateCharacter(id, updates))
        => /\ ~dbResult'.ok
           /\ dbCharacters' = dbCharacters ]_vars

\* C12: no two records of the store share an id, and once a record with a
\* given id has been deleted no later write stores a record under that id
\* again.
C12_IdsNeverReused ==
  /\ \A id \in DOMAIN dbCharacters : dbCharacters[id].id = id
  /\ deletedIds \cap DOMAIN dbCharacters = {}

\* C13: addCharacter(c) followed immediately by getCharacterById(c.id)
\* returns a record equal to c in id, system, prompt, character and isNpc,
\* whose createdAt and updatedAt are equal to each other, both the time of
\* the add (the first conjunct is the add, the second the read of what it
\* stored).
C13_AddThenGetById ==
  [][ \A c \in AddRequests :
        /\ (c.id \notin DOMAIN dbCharacters /\ addCharacter(c))
           => /\ dbResult' = DbResult("addCharacter", c.id, TRUE, << >>)
              /\ dbCharacters'[c.id].createdAt = now
        /\ ( /\ dbResult = DbResult("addCharacter", c.id, TRUE, << >>)
             /\ getCharacterById(c.id) )
           => /\ Len(dbResult'.rows) = 1
              /\ LET r == dbResult'.rows[1]
                 IN  /\ r.id = c.id
                     /\ r.system = c.system
                     /\ r.prompt = c.prompt
                     /\ r.character = c.character
                     /\ r.isNpc = c.isNpc
                     /\ r.createdAt = r.updatedAt
                     /\ r = dbCharacters[c.id] ]_vars

\* C13 witness: getCharacterById returned the record of an add made at the
\* present time, later than the start, into a store holding other records.
C13_Witness ==
  /\ dbResult.op = "getCharacterById"
  /\ Len(dbResult.rows) = 1
  /\ dbResult.rows[1].id = "id3"
  /\ dbResult.rows[1].prompt = "p"
  /\ dbResult.rows[1].createdAt = now
  /\ dbResult.rows[1].updatedAt = now
  /\ now > 0
  /\ Cardinality(DOMAIN dbCharacters) = 3

\* No row is the record of id.
Absent(id, rows) == \A i \in 1 .. Len(rows) : rows[i].id # id

\* No query of the DatabaseService over the table returns the record of id.
InNoQueryResult(id, table) ==
  /\ Absent(id, getAllCharactersRows(table))
  /\ \A searchTerm \in SearchTerms : Absent(id, searchCharactersRows(table, searchTerm))
  /\ \A system \in GameSystem : Absent(id, getCharactersBySystemRows(table, system))
  /\ \A isNpc \in BOOLEAN : Absent(id, getCharactersByNpcStatusRows(table, isNpc))
  /\ \A startDate \in 0 .. MaxTime, endDate \in 0 .. MaxTime :
       startDate <= endDate
       => Absent(id, getCharactersByDateRangeRows(table, startDate, endDate))

\* C14: after deleteCharacter(id) completes for a stored id,
\* getCharacterById(id) yields not-found and the record appears in no query
\* result (getAllCharacters, searchCharacters, the filtered queries), while
\* every other record is still returned unchanged.
C14_DeletedIsGone ==
  [][ \A id \in CharacterIds :
        (id \in DOMAIN dbCharacters /\ deleteCharacter(id))
        => /\ getCharacterByIdRows(dbCharacters', id) = << >>
           /\ InNoQueryResult(id, dbCharacters')
           /\ \A other \in DOMAIN dbCharacters \ {id} :
                /\ getCharacterByIdRows(dbCharacters', other) = <<dbCharacters[other]>>
                /\ \E i \in 1 .. Len(getAllCharactersRows(dbCharacters')) :
                     getAllCharactersRows(dbCharacters')[i] = dbCharacters[other]
           /\ Len(getAllCharactersRows(dbCharacters'))
                = Cardinality(DOMAIN dbCharacters) - 1 ]_vars

\* C14 witness: deleteCharacter has removed the stored record id2 from a
\* store that keeps two other records, one of them updated since its add.
C14_Witness ==
  /\ dbResult = DbResult("deleteCharacter", "id2", TRUE, << >>)
  /\ "id2" \in deletedIds
  /\ DOMAIN dbCharacters = {"id1", "id3"}
  /\ dbCharacters["id1"].prompt = "X"
  /\ dbCharacters["id3"].createdAt > dbCharacters["id1"].createdAt

\* C15: deleteCharacter(id) with an id that is not in the store (never
\* created, or already deleted) fails with a not-found error and leaves the
\* store unchanged.
C15_DeleteMissingFails ==
  [][ \A id \in CharacterIds :
        (id \notin DOMAIN dbCharacters /\ deleteCharacter(id))
        => /\ ~dbResult'.ok
           /\ dbCharacters' = dbCharacters ]_vars

\* text contains term as a substring, letter case ignored.
ContainsIgnoringCase(text, term) == includes(toLowerCase(text), toLowerCase(term))

\* The record is one of the rows.
Returned(record, rows) == \E i \in 1 .. Len(rows) : rows[i] = record

\* C16: searchCharacters(term) returns every stored record whose prompt or
\* character name contains term as a substring, ignoring letter case, and
\* returns no record whose prompt and character name both lack that
\* substring.
C16_SearchNameOrPrompt ==
  dbResult.op = "searchCharacters"
  => \A id \in DOMAIN dbCharacters :
       Returned(dbCharacters[id], dbResult.rows)
       <=> \/ ContainsIgnoringCase(Chars(dbCharacters[id].prompt), Chars(dbResult.id))
           \/ ContainsIgnoringCase(Chars(dbCharacters[id].character.name),
                                   Chars(dbResult.id))

\* C16 amended: searchCharacters(term) returns, once each, exactly the stored
\* records whose prompt, character name or serialized character contains
\* term as a substring, ignoring letter case; so it returns every record
\* whose prompt or character name contains it.
C16_SearchNamePromptOrSerialized ==
  dbResult.op = "searchCharacters"
  => /\ \A id \in DOMAIN dbCharacters :
          Returned(dbCharacters[id], dbResult.rows)
          <=> \/ ContainsIgnoringCase(Chars(dbCharacters[id].prompt), Chars(dbResult.id))
              \/ ContainsIgnoringCase(Chars(dbCharacters[id].character.name),
                                      Chars(dbResult.id))
              \/ ContainsIgnoringCase(JSONstringify(dbCharacters[id].character),
                                      Chars(dbResult.id))
     /\ \A i \in 1 .. Len(dbResult.rows) :
          /\ dbResult.rows[i].id \in DOMAIN dbCharacters
          /\ dbResult.rows[i] = dbCharacters[dbResult.rows[i].id]
          /\ \A j \in 1 .. Len(dbResult.rows) :
               dbResult.rows[i].id = dbResult.rows[j].id => i = j

\* C16 witness: a search for "P" over three records returned them all: two
\* whose prompt is "p", and one whose prompt was updated to "X" and whose
\* serialized character alone contains the letter.
C16_Witness ==
  /\ dbResult.op = "searchCharacters"
  /\ dbResult.id = "P"
  /\ Len(dbResult.rows) = 3
  /\ dbResult.rows[1].prompt = "p"
  /\ dbResult.rows[2].prompt = "X"
  /\ dbResult.rows[3].prompt = "p"

(***************************************************************************)
(* Claims about the PrismaService.                                         *)
(***************************************************************************)
PrismaServiceOps ==
  {"getAllCharacters", "getCharacterById", "getCharactersBySystem",
   "getCharactersByNpcStatus", "getFirstPC", "addCharacter", "updateCharacter",
   "deleteCharacter", "getCharacterCount", "searchCharacters",
   "getCharactersByDateRange"}

\* C17: when the underlying database call fails, every PrismaService
\* operation rejects with that same error after exactly one underlying call:
\* the error is never swallowed, replaced by a default result, or retried.
C17_FailureSurfacesOnce ==
  /\ prismaCall.op \in PrismaServiceOps \cup {"none"}
  /\ prismaCall.thrown # ""
     => /\ prismaCall.pc = "done"
        /\ prismaCall.result = Rejected(prismaCall.thrown)
        /\ prismaCall.underlying = 1

\* C17 witness: searchCharacters has settled after its call on
\* prisma.character failed with "query failed", over a table that holds
\* rows.
C17_Witness ==
  /\ prismaCall.op = "searchCharacters"
  /\ prismaCall.pc = "done"
  /\ prismaCall.thrown = "query failed"
  /\ prismaCharacter # EmptyMap

C19_NpcsAreFirstEntries ==
  \A c \in Callers :
    ( /\ calls[c].op = "generateCharacterWithNpcs"
      /\ calls[c].pc = "done"
      /\ calls[c].result.status = "resolved" )
    => LET payload == responseCache[FrameKey(calls[c])]
           result == calls[c].result.value
           given == IF "npcs" \in DOMAIN payload THEN payload.npcs ELSE << >>
       IN  /\ result.character = payload.character
           /\ Len(result.npcs) \in 0 .. 3
           /\ Len(result.npcs) <= calls[c].npcCount
           /\ Len(result.npcs) <= Len(given)
           /\ Len(result.npcs) = calls[c].npcCount \/ Len(result.npcs) = Len(given)
           /\ \A i \in 1 .. Len(result.npcs) : result.npcs[i] = given[i]

\* C19 witness: a call with npcCount = 2 resolved with the main character and
\* the first two of the three npcs of its payload.
C19_Witness ==
  /\ calls["c1"].op = "generateCharacterWithNpcs"
  /\ calls["c1"].pc = "done"
  /\ calls["c1"].npcCount = 2
  /\ calls["c1"].result.status = "resolved"
  /\ calls["c1"].result.value.character.name = "A"
  /\ Len(calls["c1"].result.value.npcs) = 2
  /\ calls["c1"].result.value.npcs[1].name = "N1"
  /\ calls["c1"].result.value.npcs[2].name = "N2"

\* The schema of a character in the response schema a generation call sent.
SentCharacterSchema(f) ==
  IF f.includeNpcs THEN schemaToUse(f.system, TRUE).properties.character
  ELSE schemaToUse(f.system, FALSE)

SharedSubFields == {"appearance", "personality", "backstory", "equipment"}

\* C20: for every pair of GameSystem values, the generation schemas declare
\* the shared sub-fields appearance, personality, backstory and equipment
\* identically: each is present in both schemas with the same type (array of
\* strings) and the same required status. (Stated of the schema each
\* generation call sends and the schema of every system.)
C20_SharedSubFieldsIdentical ==
  \A c \in Callers :
    ( /\ calls[c].op \in {"generateCharacter", "generateSingleCharacter",
                          "generateCharacterWithNpcs"}
      /\ calls[c].sent )
    => \A system \in GameSystem, field \in SharedSubFields :
         LET sent == SentCharacterSchema(calls[c])
             other == systemConfig[system].schema
         IN  /\ field \in DOMAIN sent.properties
             /\ field \in DOMAIN other.properties
             /\ sent.properties[field] = ArrayProperty("STRING")
             /\ other.properties[field] = ArrayProperty("STRING")
             /\ field \in sent.required <=> field \in other.required

(***************************************************************************)
(* Claims about the export formatter.                                      *)
(***************************************************************************)
\* The last export was given a record whose system tag is not supported.
ExportedUnsupported ==
  /\ exportCall.outcome # "none"
  /\ exportCall.input.system \notin GameSystem

\* C21: exportCharacterAsMdx given a record whose system tag is none of the
\* three supported ones raises an error to its caller instead of returning,
\* and produces no document and no download.
C21_UnsupportedSystemRaises ==
  ExportedUnsupported
    => /\ exportCall.outcome = "thrown"
       /\ exportCall.mdxContent = << >>
       /\ exportCall.downloads = << >>

\* The lines of a text: the pieces between its line feeds.
RECURSIVE SplitLines(_)
SplitLines(text) ==
  IF \A i \in 1 .. Len(text) : text[i] # "\n" THEN <<text>>
  ELSE LET n == CHOOSE i \in 1 .. Len(text) :
                  text[i] = "\n" /\ \A j \in 1 .. i - 1 : text[j] # "\n"
       IN  <<SubSeq(text, 1, n - 1)>> \o SplitLines(SubSeq(text, n + 1, Len(text)))

\* The lines between the first two --- lines of a document (none when the
\* document has fewer than two).
FrontmatterBlock(document) ==
  LET lines == SplitLines(document)
      fences == { i \in 1 .. Len(lines) : lines[i] = Chars("---") }
  IN  IF Cardinality(fences) < 2 THEN << >>
      ELSE LET first == CHOOSE i \in fences : \A j \in fences : i <= j
               second == CHOOSE i \in fences \ {first} :
                           \A j \in fences \ {first} : i <= j
           IN  SubSeq(lines, first + 1, second - 1)

\* One line read as key: "value": the key is what precedes the first
\* colon, space and quote, the value what lies between that quote and the
\* quote that ends the line. A line of another form is kept as it is.
ReadPair(line) ==
  LET starts == { k \in 1 .. Len(line) - 3 :
                    /\ line[k] = ":" /\ line[k + 1] = " " /\ line[k + 2] = "\"" }
  IN  IF starts = {} \/ line[Len(line)] # "\""
      THEN [malformed |-> line]
      ELSE LET k == CHOOSE i \in starts : \A j \in starts : i <= j
           IN  [key |-> SubSeq(line, 1, k - 1),
                value |-> SubSeq(line, k + 3, Len(line) - 1)]

\* Reading the frontmatter of a document: one pair per line of the block.
ReadFrontmatter(document) ==
  LET block == FrontmatterBlock(document)
  IN  [i \in 1 .. Len(block) |-> ReadPair(block[i])]

\* The name, the system and the identifying fields of a record, as pairs
\* in the order of the template.
IdentifyingPairs(record) ==
  LET fields == FrontmatterFields(record.system)
  IN  << [key |-> Chars("title"), value |-> record.character.name],
         [key |-> Chars("system"), value |-> Chars(SystemName(record.system))] >>
        \o [i \in 1 .. Len(fields) |->
              [key |-> Chars(fields[i]), value |-> record.character[fields[i]]]]

\* C22: for every stored character of a supported system and every string
\* value of its fields, reading the frontmatter block of the exported
\* document (between the first two --- lines, one key: "value" pair per
\* line) yields exactly the record's name, system and identifying fields.
C22_FrontmatterRoundTrip ==
  (exportCall.outcome = "returned" /\ exportCall.input.system \in GameSystem)
    => ReadFrontmatter(exportCall.mdxContent) = IdentifyingPairs(exportCall.input)

\* The round trip of C22 for the records whose name and identifying fields
\* hold no line feed.
NoLineFeed(record) ==
  \A k \in DOMAIN record.character :
    \A i \in 1 .. Len(record.character[k]) : record.character[k][i] # "\n"

FrontmatterRoundTripWithoutLineFeed ==
  (exportCall.outcome = "returned" /\ exportCall.input.system \in GameSystem
     /\ NoLineFeed(exportCall.input))
    => ReadFrontmatter(exportCall.mdxContent) = IdentifyingPairs(exportCall.input)

SavedCharacters(storage) ==
  LET saved == getItem(storage, SavedKey) IN
  IF saved # Null /\ JSONparse(saved).ok /\ JSONparse(saved).value.kind = "array"
  THEN { JSONparse(saved).value.items[i] : i \in 1 .. Len(JSONparse(saved).value.items) }
  ELSE {}

\* The records of a table.
Records(table) == { table[id] : id \in DOMAIN table }

\* Two records hold the same id, system, prompt, character and isNpc.
SameData(a, b) ==
  /\ a.id = b.id
  /\ a.system = b.system
  /\ a.prompt = b.prompt
  /\ a.character = b.character
  /\ a.isNpc = b.isNpc

\* C24: once the upgrade to version 2 has completed, every character that
\* was stored before it, under the localStorage key or in the characters
\* table, is in the characters table with the same id, system, prompt,
\* character and isNpc.
C24_UpgradePreservesData ==
  [][(verno = 1 /\ verno' = 2)
       => \A old \in Records(dbCharacters) \cup SavedCharacters(localStorage) :
            \E r \in Records(dbCharacters') : SameData(r, old)]_vars

\* The table holds exactly the records of rows, each under its id.
HoldsExactly(table, rows) ==
  /\ Records(table) = { rows[i] : i \in 1 .. Len(rows) }
  /\ Cardinality(DOMAIN table) = Len(rows)
  /\ \A id \in DOMAIN table : table[id].id = id

\* C25: after restoreDatabase(B) has succeeded the characters table holds
\* exactly the records of B, whatever it held before; with B the array a
\* backupDatabase() call returned, the restore succeeds and the table is
\* back to what it held at the time of the backup, whatever was added,
\* updated or deleted since.
C25_RestoreOverwrites ==
  [][dbResult'.op = "restoreDatabase"
       => \A backupData \in {backup} \cup RestoreArrays, committed \in BOOLEAN :
            restoreDatabase(backupData, committed)
              => /\ dbResult'.ok => HoldsExactly(dbCharacters', backupData)
                 /\ backupData = backup
                    => /\ dbResult'.ok
                       /\ toArray(dbCharacters') = backup]_vars

\* A restore of a backup of two records, one of them updated before the
\* backup, has succeeded.
C25_Witness ==
  /\ dbResult.op = "restoreDatabase"
  /\ dbResult.ok
  /\ Len(backup) = 2
  /\ \E i \in 1 .. Len(backup) : backup[i].prompt = "X"
  /\ toArray(dbCharacters) = backup

\* C26: validateDatabase() never throws, and it returns true only if every
\* record of the characters table has a non-empty id, system and character
\* (it returns false when some record is invalid).
C26_ValidateChecksEveryRecord ==
  dbResult.op = "validateDatabase"
    => /\ dbResult.ok
       /\ dbResult.value = Boolean(TRUE)
          => \A r \in Records(dbCharacters) : ~IsInvalid(r)

\* C29: when restoreDatabase(B) fails, the characters table still holds
\* exactly the records it held before the call.
C29_FailedRestoreLosesNothing ==
  [][(dbResult'.op = "restoreDatabase" /\ ~dbResult'.ok)
       => dbCharacters' = dbCharacters]_vars

(***************************************************************************)
(* Claims about the HomePage list, overlapping generation calls and        *)
(* createdAt.                                                              *)
(***************************************************************************)
\* No handler of the page is running.
PageAtRest == page.pc = "idle" /\ page.deleting = {}

\* The ids of the in-memory characters list.
ListedIds == { page.characters[i].id : i \in 1 .. Len(page.characters) }

\* C27: the page starts with its in-memory list equal to the store's
\* contents; whenever its handlers have completed, whether they succeeded
\* or failed at any step, the list holds exactly the ids of the records in
\* the store.
C27_ListMatchesStore ==
  PageAtRest => ListedIds = DOMAIN prismaCharacter

\* Callers c and d run generateCharacter with the same (system, prompt,
\* includeNpcs) triple.
SameTriple(c, d) ==
  /\ c # d
  /\ calls[c].op = "generateCharacter"
  /\ calls[d].op = "generateCharacter"
  /\ FrameKey(calls[c]) = FrameKey(calls[d])

\* C28: when two generateCharacter calls with the same triple overlap, at
\* most one outbound call is made for the triple, and both calls resolve
\* to the same value. (Two resolved calls that each made an outbound call
\* for one triple have overlapped: otherwise the later one is a cache hit.)
C28_OverlappingCallsShareOneRequest ==
  \A c, d \in Callers :
    SameTriple(c, d)
      => /\ (calls[c].pc = "awaiting" /\ calls[d].pc = "awaiting")
            => ~(calls[c].sent /\ calls[d].sent)
         /\ ( /\ calls[c].pc = "done" /\ calls[d].pc = "done"
              /\ calls[c].sent /\ calls[d].sent
              /\ calls[c].result.status = "resolved"
              /\ calls[d].result.status = "resolved" )
            => calls[c].result = calls[d].result

\* C30: a record of the DatabaseService store keeps the createdAt stamped
\* at its creation for as long as it exists: no addCharacter,
\* updateCharacter or bulkUpsert call changes the createdAt of a record
\* that is in the table before and after it.
C30_CreatedAtImmutable ==
  [][\A id \in DOMAIN dbCharacters \cap DOMAIN dbCharacters' :
       dbCharacters'[id].createdAt = dbCharacters[id].createdAt]_vars

====
